---- MODULE Spec2Model ----
(***************************************************************************)
(* Model of the deadline-bounded question agent of tds-quiz-solver:        *)
(*   app/timer.py          QuestionTimer                                   *)
(*   app/llm/client.py     LLMClient.generate / _call_with_retries         *)
(*   app/agent/solver.py   QuestionAgent (plan, ReAct loop, submit)        *)
(*   app/agent/prompts.py  react_step_prompt / finalize_prompt             *)
(*   app/agent/solver.py   run_solver_job (the chain of rounds)            *)
(*   app/tools/core_send_request.py  send_request                          *)
(*   app/solver.py         QuizSolver._submit_answer, run_solver_job       *)
(*   app/primitives/submit.py  SubmissionHandler                           *)
(*   app/primitives/browser.py BrowserManager                              *)
(*   agent.py, main.py     the LangGraph agent and runagent_with_timeout   *)
(*                                                                         *)
(* Time is counted in ticks of half a second (the finest delay the code    *)
(* uses is the 0.5 s backoff).  The clock advances only while the code is  *)
(* suspended in an awaited call (sleep, provider call, page load, tool,    *)
(* HTTP request); synchronous code between two awaits reads one clock      *)
(* value.                                                                  *)
(*                                                                         *)
(* Name resolution: the agent and the client read the timer through        *)
(* timer.time_remaining(), while QuestionTimer names that read remaining() *)
(* (as written the call raises AttributeError).  Likewise the f-strings of *)
(* react_step_prompt / finalize_prompt hold unescaped braces and raise     *)
(* ValueError when formatted.  The model follows the control flow with     *)
(* time_remaining() read as remaining() and with the prompt builders       *)
(* returning the text they are written to embed (the context window), so   *)
(* that the loop, the finalization and the submission can be examined.     *)
(* run_solver_job reads settings.forces_submit_time where Settings defines *)
(* force_submit_time (AttributeError as written); the model takes the      *)
(* timer of each round as constructed with that budget.                    *)
(* main.py imports runagent and postrequest, which agent.py and the tools  *)
(* define as run_agent and post_request (ImportError as written); the      *)
(* model reads the names as the functions they stand for.                  *)
(*                                                                         *)
(* A text is a sequence of segments <<id, lo, hi>>: characters lo..hi of   *)
(* the id-th entry ever appended to the context log.  This keeps the       *)
(* identity and order of every character without enumerating characters.   *)
(*                                                                         *)
(* Specifications: TimerSpec (a timer started and read at any time),       *)
(* CtxSpec (any sequence of context appends), Spec (one round, every       *)
(* client configuration), PageSpec (one round, every form of submit URL),  *)
(* ClientSpec (generate calls made one after another on one client),       *)
(* SubmitSpec (the two submission paths, payloads of any size), JobSpec    *)
(* (two concurrent jobs, each a chain of rounds), SharedSpec (two jobs and *)
(* the client they share), QuizSpec (QuizSolver.solve_question),           *)
(* IdentitySpec (one round on a page showing email and url fields),        *)
(* LiveSpec (one round whose calls all return and take time), GraphSpec    *)
(* (the LangGraph agent under its watchdog), BrowserSpec (concurrent       *)
(* load_page calls on the shared browser manager).                         *)
(***************************************************************************)
EXTENDS Integers, Sequences, FiniteSets, TLC

VARIABLES
    now,                 \* time.time(), in ticks
    timeout,             \* QuestionTimer.timeout, in ticks
    start_time,          \* QuestionTimer.start_time (None before start)
    timer_read,          \* last values returned by a read of the timer
    context_log,         \* QuestionAgent.context_log (a text)
    appended,            \* history: kind and length of every entry passed to _append_context
    trimmed,             \* history: _append_context has cut the log at least once
    primary,             \* LLMClient.primary
    fallback_enabled,    \* LLMClient.fallback_enabled
    status,              \* LLMClient._gemini_status / _aipipe_status
    gen,                 \* the call of LLMClient.generate in progress or just finished
    pc,                  \* where solve_one_question stands
    steps,               \* iterations of the ReAct loop started so far
    loop_exit,           \* how _react_loop was left
    failure,             \* what raised out of solve_one_question
    finalize_calls,      \* calls of _force_finalize
    prompt_ctx,          \* context window embedded in the last ReAct prompt
    submission_template, \* QuestionAgent.submission_template
    final_update,        \* history: what the `final` step merged
    payload,             \* payload built by _submit_answer
    post,                \* position in the submit retry loops, requests on the wire
    page,                \* the quiz page: its base_url, the submit_url planning reads off it
    job,                 \* the calls of run_solver_job, by job id
    graph,               \* the run of the LangGraph agent (agent.py) and its watcher
    browser,             \* the shared BrowserManager and the load_page calls on it
    submit_url,          \* solve_one_question's submit_url (None before planning)
    result               \* what the entry point returned: the body of _submit_answer,
                         \* or the text of a generate call made outside a round

timerVars == <<timeout, start_time, timer_read>>

ctxVars == <<context_log, appended, trimmed>>

clientVars == <<primary, fallback_enabled, status, gen>>

agentVars == <<pc, steps, loop_exit, failure, finalize_calls, prompt_ctx,
               submission_template, final_update, payload, post, page, submit_url, result>>

roundVars == <<agentVars, job, graph, browser>>

vars == <<now, timerVars, ctxVars, clientVars, roundVars>>

\* Optional values: None, or Some(x) whose value is Val(Some(x)) = x
None == <<>>

Some(x) == <<x>>

Val(o) == o[1]

\* ---------------------------------------------------------------------------
\* Bounds of the model
\* ---------------------------------------------------------------------------
MaxBudget == 20
MaxTick == 3
MaxTimerClock == 26
MaxAppends == 4
MaxSteps == 2
IoDelay == 10
ShortText == 300
LongText == 4500
HugeText == 12500

\* ---------------------------------------------------------------------------
\* Program constants
\* ---------------------------------------------------------------------------
TicksPerSecond == 2
CONTEXT_CAP == 12000
CONTEXT_KEEP == 8000
PROMPT_WINDOW == 4000
PLAN_LIMIT == 1000
OBS_LIMIT == 1500
LLM_MIN_REMAINING_S == 5
LLM_MAX_ATTEMPTS == 4
SUBMIT_ATTEMPTS == 2
SEND_MAX_RETRIES == 3
HANDLER_MAX_RETRIES == 3

Max(a, b) == IF a >= b THEN a ELSE b
Min(a, b) == IF a <= b THEN a ELSE b

\* ---------------------------------------------------------------------------
\* QuestionTimer (app/timer.py)
\* ---------------------------------------------------------------------------
elapsed_flipped(st, t) == IF st = None THEN 0 ELSE Val(st) - t

elapsed(st, t) == IF st = None THEN 0 ELSE t - Val(st)

remaining(st, to, t) == Max(0, to - elapsed(st, t))

should_force_submit(st, to, t) == elapsed(st, t) >= to

\* ---------------------------------------------------------------------------
\* Texts as segment sequences
\* ---------------------------------------------------------------------------
SegLen(seg) == seg[3] - seg[2] + 1

RECURSIVE StrLen(_)
StrLen(s) == IF s = <<>> THEN 0 ELSE SegLen(Head(s)) + StrLen(Tail(s))

\* s[:n]
RECURSIVE Prefix(_, _)
Prefix(s, n) ==
    IF n <= 0 \/ s = <<>> THEN <<>>
    ELSE LET h == Head(s) IN
         IF SegLen(h) <= n
         THEN <<h>> \o Prefix(Tail(s), n - SegLen(h))
         ELSE << <<h[1], h[2], h[2] + n - 1>> >>

\* s[k:] for k >= 0: drop the first k characters
RECURSIVE Drop(_, _)
Drop(s, k) ==
    IF s = <<>> THEN <<>>
    ELSE IF k <= 0 THEN s
    ELSE LET h == Head(s) IN
         IF SegLen(h) <= k
         THEN Drop(Tail(s), k - SegLen(h))
         ELSE << <<h[1], h[2] + k, h[3]>> >> \o Tail(s)

\* s[-n:] for n > 0 (the whole of s when it is shorter than n)
Suffix(s, n) == Drop(s, StrLen(s) - n)

\* the text of the id-th entry: `text + "\n"`, len characters in all
Entry(id, len) == << <<id, 1, len>> >>

\* ---------------------------------------------------------------------------
\* QuestionAgent._append_context (app/agent/solver.py)
\* ---------------------------------------------------------------------------
append_context_keep_head(log, id, len) ==
    LET grown == log \o Entry(id, len) IN
    IF StrLen(grown) > CONTEXT_CAP THEN Prefix(grown, CONTEXT_KEEP) ELSE grown

append_context(log, id, len) ==
    LET grown == log \o Entry(id, len) IN
    IF StrLen(grown) > CONTEXT_CAP THEN Suffix(grown, CONTEXT_KEEP) ELSE grown

\* ---------------------------------------------------------------------------
\* LLMClient (app/llm/client.py)
\* ---------------------------------------------------------------------------
Providers == {"GEMINI", "AIPIPE"}

\* outcomes of one provider call other than success
\* ("http401": any status other than 2xx, 429 and 5xx; "nokey": the API key
\* is not configured; "malformed": the provider's reply cannot be read)
ErrorKinds == {"http429", "http5xx", "timeout", "transport", "http401", "nokey", "malformed"}

is_retriable_error_always(e) == TRUE

is_retriable_error_without_429(e) == e \in {"http5xx", "timeout", "transport"}

is_retriable_error(e) == e \in {"http429", "http5xx", "timeout", "transport"}

build_provider_order_available_first(p, fb) ==
    LET o == IF p = "GEMINI" THEN "AIPIPE" ELSE "GEMINI" IN
    IF ~fb THEN <<p>>
    ELSE IF status[o].available /\ ~status[p].available THEN <<o, p>>
    ELSE <<p, o>>

build_provider_order(p, fb) ==
    <<p>> \o (IF fb THEN (IF p = "GEMINI" THEN <<"AIPIPE">> ELSE <<"GEMINI">>) ELSE <<>>)

backoffs_before_first_try ==
    <<TicksPerSecond \div 2, TicksPerSecond, 2 * TicksPerSecond, 4 * TicksPerSecond>>

\* backoffs = [0.0, 0.5, 1.0, 2.0] seconds, in ticks
backoffs == <<0, TicksPerSecond \div 2, TicksPerSecond, 2 * TicksPerSecond>>

\* `remaining < 5.0` in _call_with_retries
too_late_never(rem) == FALSE

too_late(rem) == rem < LLM_MIN_REMAINING_S * TicksPerSecond

LLMProviderStatus_never_available(av, err) == [available |-> FALSE, last_error |-> err]

LLMProviderStatus(av, err) == [available |-> av, last_error |-> err]

\* entry into generate(..., timer=self.timer): nothing tried yet.
\* tries lists the provider calls made (provider, sleep before the call),
\* last is the outcome of the latest one, reply the text it returned.
NewGen(caller, t) ==
    [caller |-> caller, timed |-> TRUE, idx |-> 1, attempt |-> 0, calls |-> 0,
     entry |-> remaining(start_time, timeout, t), outcome |-> "running",
     tries |-> <<>>, last |-> "none", reply |-> "none"]

NoGen ==
    [caller |-> "none", timed |-> FALSE, idx |-> 0, attempt |-> 0, calls |-> 0,
     entry |-> 0, outcome |-> "none", tries |-> <<>>, last |-> "none", reply |-> "none"]

\* ---------------------------------------------------------------------------
\* JSON extraction used by the agent on every reasoning response:
\* json.loads(response), else json.loads(response[first "{" : last "}" + 1])
\* ---------------------------------------------------------------------------
\* shapes of a response text
TextShapes == {"object", "embedded", "nonobject", "nojson"}

parse_json_or_empty(shape) ==
    CASE shape = "nonobject" -> "other"
      [] OTHER -> "dict"

\* "dict": a dict was parsed; "other": json.loads returned a list, number,
\* string or null; "fail": both attempts raised
parse_json(shape) ==
    CASE shape = "object" -> "dict"
      [] shape = "embedded" -> "dict"
      [] shape = "nonobject" -> "other"
      [] OTHER -> "fail"

\* ---------------------------------------------------------------------------
\* Context entries written by the agent
\* ---------------------------------------------------------------------------
Ctx == [log |-> context_log, hist |-> appended, trimmed |-> trimmed]

\* _append_context(text) where text + "\n" has len characters
CtxAppend(c, kind, len) ==
    [log |-> append_context(c.log, Len(c.hist) + 1, len),
     hist |-> Append(c.hist, [kind |-> kind, len |-> len]),
     trimmed |-> (c.trimmed \/ StrLen(c.log) + len > CONTEXT_CAP)]

SetCtx(c) ==
    /\ context_log' = c.log
    /\ appended' = c.hist
    /\ trimmed' = c.trimmed

\* f"OBSERVATION from {tool_name}: {obs_str[:1500]}" + "\n" for tool run_code
ObservationLen(n) == 17 + 8 + 2 + Min(n, OBS_LIMIT) + 1

\* s[:4000], the window the prompt builders embed
prompt_window(log) == Prefix(log, PROMPT_WINDOW)

\* ---------------------------------------------------------------------------
\* URLs.  An absolute URL is [origin, path], the path a sequence of segments;
\* the submit_url of a plan is None (missing or empty), an absolute URL
\* (form "absolute"), a path from the root such as "/submit" (form "rooted")
\* or a path relative to the page such as "submit" (form "relative").
\* ---------------------------------------------------------------------------
Origins == {"https://quiz.example", "https://other.example"}

AbsUrl(origin, path) == [origin |-> origin, path |-> path]

\* urllib.parse.urljoin(base_url, ref) for a reference without scheme and host
urljoin(base, ref) ==
    IF ref.form = "rooted"
    THEN AbsUrl(base.origin, ref.path)
    ELSE AbsUrl(base.origin, SubSeq(base.path, 1, Len(base.path) - 1) \o ref.path)

make_absolute_submit_url_from_root(base, u) ==
    IF u = None THEN AbsUrl(base.origin, <<"submit">>)
    ELSE IF Val(u).form = "absolute" THEN AbsUrl(Val(u).origin, Val(u).path)
    ELSE AbsUrl(base.origin, Val(u).path)

make_absolute_submit_url(base, u) ==
    IF u = None THEN AbsUrl(base.origin, <<"submit">>)
    ELSE IF Val(u).form = "absolute" THEN AbsUrl(Val(u).origin, Val(u).path)
    ELSE urljoin(base, Val(u))

\* page["base_url"] of the loaded quiz page
BaseUrl == AbsUrl("https://quiz.example", <<"quiz", "q1">>)

\* a quiz URL of more than 1 MB, as a submission response can give for the
\* next round
LongUrl == AbsUrl("https://quiz.example", <<"quiz", "q1?token=...">>)

\* the text of the round's url as the template holds it
UrlText(u) == IF u = LongUrl THEN "HUGE_URL" ELSE "URL"

\* what a plan can give as submit_url
SubmitUrls ==
    {None,
     Some([form |-> "relative", origin |-> "", path |-> <<"submit">>]),
     Some([form |-> "rooted", origin |-> "", path |-> <<"api", "submit">>]),
     Some([form |-> "absolute", origin |-> "https://other.example", path |-> <<"submit">>])}

\* asks tells what the page leads the reasoning service to put into an
\* updated_submission: the answer only, or the email and url fields as well
Pages == [base_url : {BaseUrl}, submit_url : SubmitUrls, asks : {"answer"}]

\* the page of the specifications that do not look at URLs
QuizPage ==
    [base_url |-> BaseUrl,
     submit_url |-> Some([form |-> "relative", origin |-> "", path |-> <<"submit">>]),
     asks |-> "answer"]

\* the same page reached through the long URL
LongPage == [QuizPage EXCEPT !.base_url = LongUrl]

\* a page whose form shows email and url fields next to the answer
IdentityPage == [QuizPage EXCEPT !.asks = "identity"]

\* ---------------------------------------------------------------------------
\* The submission template: a dict of which the keys email, url, secret and
\* answer are followed; "absent" stands for a key the dict does not hold,
\* "null" for the value None.
\* ---------------------------------------------------------------------------
\* self.submission_template = {}
EmptyTemplate ==
    [email |-> "absent", url |-> "absent", secret |-> "absent", answer |-> "absent"]

setdefault_overwrites(tmpl, key, value) == [tmpl EXCEPT ![key] = value]

\* dict.setdefault(key, value)
setdefault(tmpl, key, value) ==
    IF tmpl[key] = "absent" THEN [tmpl EXCEPT ![key] = value] ELSE tmpl

\* ---------------------------------------------------------------------------
\* Serialized size of a payload.  A value of a dict is known by its name; the
\* table gives the bytes of its JSON text (quotes included).  CHART is the
\* base64 image a visualization answer holds, HUGE_URL the text of LongUrl.
\* ---------------------------------------------------------------------------
\* 1 MB as the size checks compute it: size / (1024 * 1024) > 1.0
MAX_PAYLOAD_BYTES == 1024 * 1024

ValueBytes(v) ==
    CASE v = "null" -> 4
      [] v = "" -> 2
      [] v = "ZERO" -> 1
      [] v = "None" -> 6
      [] v \in {"A1", "A2"} -> 4
      [] v \in {"SECRET", "PAGE_SECRET"} -> 15
      [] v = "EMAIL" -> 21
      [] v = "URL" -> 30
      [] v \in {"EXPL", "NOTE"} -> 40
      [] v = "CHART[:1000]" -> 1002
      [] v = "HUGE_URL" -> MAX_PAYLOAD_BYTES + 30
      [] v = "CHART" -> 2 * MAX_PAYLOAD_BYTES

KeyBytes(k) ==
    CASE k = "url" -> 5
      [] k = "note" -> 6
      [] k = "email" -> 7
      [] k \in {"secret", "answer"} -> 8
      [] k = "explanation" -> 13

RECURSIVE ItemsBytes(_, _)
\* the items `"key": value` of the keys ks of dict d, each with its separator
ItemsBytes(d, ks) ==
    IF ks = {} THEN 0
    ELSE LET k == CHOOSE x \in ks : TRUE IN
         KeyBytes(k) + 2 + ValueBytes(d[k]) + 2 + ItemsBytes(d, ks \ {k})

\* len(json.dumps(d).encode("utf-8")): braces, items, ", " between items
JsonBytes(d) ==
    LET ks == {k \in DOMAIN d : d[k] # "absent"} IN
    IF ks = {} THEN 2 ELSE ItemsBytes(d, ks)

\* validate_payload for a serializable payload
validate_payload(d) == ~(JsonBytes(d) > MAX_PAYLOAD_BYTES)

\* str(answer)[:1000]
str_cut(v) ==
    CASE v = "CHART" -> "CHART[:1000]"
      [] v = "null" -> "None"
      [] OTHER -> v

\* nothing sent yet.  body is the JSON body of the latest request put on the
\* wire, last how that request ended, follow which outcomes of a request
\* are told apart.
NoPost ==
    [attempt |-> 0, try |-> 1, wire |-> 0, to |-> None, body |-> None, last |-> "none",
     follow |-> "some"]

\* ---------------------------------------------------------------------------
\* run_solver_job: the chain of rounds of one job.  Two runners exist:
\* app.agent.solver.run_solver_job ("agent", the one app.main starts as a
\* background task) and app.solver.run_solver_job ("quiz").
\* ---------------------------------------------------------------------------
JobIds == {1, 2}

Runners == {"agent", "quiz"}

\* the quiz URLs a request or a submission response can name
ChainUrls == {"U1", "U2"}

\* max_questions = 20  # Safety limit
MAX_QUESTIONS == 20

\* rounds a job is followed for
MaxRounds == 22

\* rounds a job is followed for where the calls inside its rounds are followed
ShortChain == 2

chain_goes_on_without_url(runner, current_url, count) ==
    runner = "quiz" => count < MAX_QUESTIONS

\* the while test: `while current_url` (agent),
\* `while current_url and question_count < max_questions` (quiz)
chain_goes_on(runner, current_url, count) ==
    current_url # None /\ (runner = "quiz" => count < MAX_QUESTIONS)

\* a job before run_solver_job is called.  round_url is the url the latest
\* round was started on, last_url the `url` of the latest submission
\* response, answered the number of rounds that returned a response, raised
\* whether an exception left run_solver_job, recorded what the latest
\* reasoning call of the job's round wrote into the client (the provider and
\* its status), limit the number of rounds the job is followed for.
NewJob(runner) ==
    [runner |-> runner, state |-> "idle", current_url |-> None, question_index |-> 0,
     round_url |-> None, last_url |-> None, answered |-> 0, raised |-> FALSE,
     recorded |-> None, limit |-> MaxRounds]

NoJobs == [j \in JobIds |-> NewJob("agent")]

\* ---------------------------------------------------------------------------
\* The LangGraph agent of agent.py, run by runagent_with_timeout of main.py
\* in a worker thread.  Of the messages of AgentState the last one is
\* followed: its kind (last), for a tool call or a tool result the tool
\* (tool: "post" for post_request, "other"), the answer a post_request
\* carries (answer), and what the submit endpoint answered (resp).
\* ---------------------------------------------------------------------------
RECURSION_LIMIT == 100
MAX_SKIP_ATTEMPTS == 3
SKIP_AFTER_S == 175
GIVE_UP_AFTER_S == 180
DUMMY_SUBMISSION_DEADLINE == 175

\* the clock of a run is followed for this many seconds
MaxGraphClock == 185

\* how long a slow reasoning call or tool call takes, in seconds
GraphDelay == 85

\* nodes a run of the graph is followed for
MaxGraphSteps == 8

\* before run_agent is called.  node is where the graph stands, supersteps
\* the nodes run so far, t0 the time of the call, watch the state of
\* runagent_with_timeout; injected counts the forced-SKIP instructions given
\* to the model in the current task, after_dummy whether tool calls after
\* the dummy submission have been made.
NoGraph ==
    [node |-> "idle", last |-> "none", tool |-> "none", answer |-> "none", resp |-> "none",
     attempts |-> 0, task_start_time |-> 0, supersteps |-> 0, t0 |-> 0,
     watch |-> "idle", injected |-> 0, after_dummy |-> FALSE]

\* what llm_with_prompt.invoke returns: a call of post_request with the
\* answer SKIP or another answer, a call of another tool, plain text, or the
\* text END
LlmResults ==
    [last : {"ai_tool"}, tool : {"post"}, answer : {"SKIP", "other"}]
    \cup {[last |-> "ai_tool", tool |-> "other", answer |-> "none"],
          [last |-> "ai_text", tool |-> "none", answer |-> "none"],
          [last |-> "END", tool |-> "none", answer |-> "none"]}

\* the content of the ToolMessage of post_request: JSON with correct and url,
\* or a text json.loads refuses
PostResponses == {"correct_next", "correct_end", "wrong_next", "wrong_end", "unparsable"}

\* route(state)
route(last) ==
    IF last = "END" THEN "end" ELSE IF last = "ai_tool" THEN "tools" ELSE "agent"

\* part 1 of agent_node, ANALYZE LAST TOOL OUTPUT: move to the next task,
\* end the run, count a failed attempt, or nothing to analyze
verdict(g, el) ==
    IF ~(g.last = "tool" /\ g.tool = "post") THEN "none"
    ELSE CASE g.resp = "unparsable" -> "retry"
           [] g.resp = "correct_next" -> "next_task"
           [] g.resp = "correct_end" -> "end"
           [] g.answer = "SKIP" -> IF g.resp = "wrong_next" THEN "next_task" ELSE "end"
           [] OTHER -> IF el > GIVE_UP_AFTER_S * TicksPerSecond THEN "end" ELSE "retry"

\* the last message is a HumanMessage holding "SYSTEM: You have failed": the
\* HumanMessages of the state are "Solve this", "Level Complete", "Skipped
\* Level" and "END"; the forced-SKIP message goes into valid_history only
stuck_in_skip_loop(g) == FALSE

\* part 3 of agent_node, FORCE SKIP LOGIC: force_skip_message is set
force_skip(attempts, el) ==
    attempts >= MAX_SKIP_ATTEMPTS \/ el > SKIP_AFTER_S * TicksPerSecond

\* ---------------------------------------------------------------------------
\* The module-level browser_manager and the load_page calls made on it by
\* concurrent jobs.  at[c] is where call c stands; playwright and browser
\* name the call whose result the attribute holds (0: None); launched counts
\* the launches since the last close().
\* ---------------------------------------------------------------------------
Callers == {1, 2}

NoBrowser ==
    [initialized |-> FALSE, playwright |-> 0, browser |-> 0, launched |-> 0,
     at |-> [c \in Callers |-> "idle"]]

\* ---------------------------------------------------------------------------
\* Initial values of the parts a specification does not exercise
\* ---------------------------------------------------------------------------
IdleClient ==
    /\ status = [p \in Providers |-> LLMProviderStatus(FALSE, "none")]
    /\ gen = NoGen

IdleRound ==
    /\ pc = "idle"
    /\ steps = 0
    /\ loop_exit = "none"
    /\ failure = "none"
    /\ finalize_calls = 0
    /\ prompt_ctx = <<>>
    /\ submission_template = EmptyTemplate
    /\ final_update = None
    /\ payload = None
    /\ post = NoPost
    /\ page = QuizPage
    /\ job = NoJobs
    /\ graph = NoGraph
    /\ browser = NoBrowser
    /\ submit_url = None
    /\ result = None

EmptyCtx ==
    /\ context_log = <<>>
    /\ appended = <<>>
    /\ trimmed = FALSE

\* ---------------------------------------------------------------------------
\* TimerSpec: a QuestionTimer with any budget, started and read at any time
\* ---------------------------------------------------------------------------
Budgets == 0 .. MaxBudget

TimerInit ==
    /\ now \in 0 .. MaxTick
    /\ timeout \in Budgets
    /\ start_time = None
    /\ timer_read = None
    /\ EmptyCtx
    /\ primary = "GEMINI"
    /\ fallback_enabled = TRUE
    /\ IdleClient
    /\ IdleRound

\* the clock moves forward
ClockTick ==
    /\ \E d \in 1 .. MaxTick :
          /\ now + d <= MaxTimerClock
          /\ now' = now + d
    /\ UNCHANGED <<timerVars, ctxVars, clientVars, roundVars>>

\* QuestionTimer.start
TimerStart ==
    /\ start_time' = Some(now)
    /\ timer_read' = None
    /\ UNCHANGED <<now, timeout, ctxVars, clientVars, roundVars>>

\* one read of remaining() and of should_force_submit()
TimerRead ==
    /\ start_time # None
    /\ timer_read' = Some([at |-> now,
                           remaining |-> remaining(start_time, timeout, now),
                           force |-> should_force_submit(start_time, timeout, now)])
    /\ UNCHANGED <<now, timeout, start_time, ctxVars, clientVars, roundVars>>

TimerNext == ClockTick \/ TimerStart \/ TimerRead

TimerSpec == TimerInit /\ [][TimerNext]_vars

\* ---------------------------------------------------------------------------
\* CtxSpec: any sequence of _append_context calls
\* ---------------------------------------------------------------------------
TextLens == {ShortText, LongText, HugeText}

CtxInit ==
    /\ now = 0
    /\ timeout = MaxBudget
    /\ start_time = None
    /\ timer_read = None
    /\ EmptyCtx
    /\ primary = "GEMINI"
    /\ fallback_enabled = TRUE
    /\ IdleClient
    /\ IdleRound

AppendContext ==
    /\ Len(appended) < MaxAppends
    /\ \E len \in TextLens :
          SetCtx(CtxAppend(Ctx, "TEXT", len))
    /\ UNCHANGED <<now, timerVars, clientVars, roundVars>>

CtxNext == AppendContext

CtxSpec == CtxInit /\ [][CtxNext]_vars

\* ---------------------------------------------------------------------------
\* Spec: one round of QuestionAgent.solve_one_question
\* ---------------------------------------------------------------------------
RoundBudgets == {MaxBudget \div 2, MaxBudget}

IoDelays == {0, IoDelay}

\* outcomes of a provider call that the round exercises besides success
CallErrors == {"http429", "http401"}

\* The timer does not expire later than Horizon; every timer read gives the
\* same value at all clock values >= Horizon, so the clock is not counted
\* beyond it.
Horizon == (IF start_time = None THEN now ELSE Val(start_time)) + timeout + 1

Later(d) == Min(now + d, Horizon)

order == build_provider_order(primary, fallback_enabled)

Init ==
    /\ now = IoDelay
    /\ timeout \in RoundBudgets
    /\ start_time = None
    /\ timer_read = None
    /\ EmptyCtx
    /\ primary \in Providers
    /\ fallback_enabled \in BOOLEAN
    /\ IdleClient
    /\ IdleRound

\* an exception leaves solve_one_question
RoundRaises(why) ==
    /\ pc' = "failed"
    /\ failure' = why
    /\ UNCHANGED <<steps, loop_exit, finalize_calls, prompt_ctx,
                   submission_template, final_update, payload, post, page, job, graph, browser,
                   submit_url, result>>

\* solve_one_question: timer.start(), then the await of load_raw_page
SolveStart ==
    /\ pc = "idle"
    /\ start_time' = Some(now)
    /\ pc' = "load"
    /\ UNCHANGED <<now, timeout, timer_read, ctxVars, clientVars, steps, loop_exit,
                   failure, finalize_calls, prompt_ctx, submission_template,
                   final_update, payload, post, page, job, graph, browser, submit_url, result>>

\* load_raw_page returns or raises BrowserError; on return _planning_phase
\* builds its prompt and enters llm.generate
LoadPage ==
    /\ pc = "load"
    /\ \E d \in IoDelays, ok \in BOOLEAN :
          /\ now' = Later(d)
          /\ IF ok
             THEN /\ gen' = NewGen("plan", now')
                  /\ pc' = "llm"
                  /\ UNCHANGED <<steps, loop_exit, failure, finalize_calls, prompt_ctx,
                                 submission_template, final_update, payload, post, page, job,
                                 graph, browser,
                                 submit_url, result>>
             ELSE /\ gen' = gen
                  /\ RoundRaises("load")
    /\ UNCHANGED <<timerVars, ctxVars, primary, fallback_enabled, status>>

\* --- responses of the reasoning service ------------------------------------
\* (the plan's submission_template is missing or empty, or holds the question's
\* secret and a null placeholder for the answer)
PlanResponses ==
    [shape : TextShapes, action : {"none"}, tool : {"none"},
     answer : {"absent"}, secret : {"absent"}]
    \cup [shape : TextShapes, action : {"none"}, tool : {"none"},
          answer : {"null"}, secret : {"PAGE_SECRET"}]

\* (identity tells whether updated_submission holds an email or a url of
\* its own next to the answer)
StepResponses ==
    [shape : {"object", "embedded"}, action : {"tool"},
     tool : {"run_code", "nosuch", "unhashable"}, answer : {"absent"}, identity : {"absent"}]
    \cup [shape : {"object", "embedded"}, action : {"final"}, tool : {"none"},
          answer : {"absent", "A1"}, identity : {"absent", "email", "url"}]
    \cup [shape : TextShapes, action : {"other"}, tool : {"none"}, answer : {"absent"},
          identity : {"absent"}]

FinalizeResponses ==
    [shape : TextShapes, action : {"none"}, tool : {"none"}, answer : {"absent", "A2"},
     identity : {"absent", "email", "url"}]

\* texts returned to a caller outside the round
ClientResponses == {"T1", "T2"}

\* the reasoning service may ask for a tool only while the step bound allows,
\* and names email or url only for a page that shows them
ResponsesWithin(caller, bound) ==
    CASE caller = "plan" -> PlanResponses
      [] caller = "react" ->
             {r \in StepResponses : /\ r.action = "tool" => steps < bound
                                    /\ r.identity # "absent" => page.asks = "identity"}
      [] caller = "client" -> ClientResponses
      [] OTHER -> {r \in FinalizeResponses : r.identity # "absent" => page.asks = "identity"}

Responses(caller) == ResponsesWithin(caller, MaxSteps)

\* step.get("updated_submission") or {}
updated_submission(r) ==
    [email |-> IF r.identity = "email" THEN "OTHER_EMAIL" ELSE "absent",
     url |-> IF r.identity = "url" THEN "OTHER_URL" ELSE "absent",
     secret |-> "absent",
     answer |-> r.answer]

\* dict.update(updated) on the template
Merge(tmpl, updated) ==
    [k \in DOMAIN tmpl |-> IF updated[k] = "absent" THEN tmpl[k] ELSE updated[k]]

\* _planning_phase after generate returned, then solve_one_question up to _react_loop
PlanReturned(r) ==
    IF parse_json(r.shape) = "fail" THEN RoundRaises("plan_parse") /\ UNCHANGED ctxVars
    ELSE IF parse_json(r.shape) = "other" THEN RoundRaises("plan_type") /\ UNCHANGED ctxVars
    ELSE /\ submit_url' = Some(make_absolute_submit_url(page.base_url, page.submit_url))
         /\ submission_template' =
                [email |-> "EMAIL", url |-> UrlText(page.base_url),
                 secret |-> r.secret, answer |-> r.answer]
         /\ SetCtx(CtxAppend(Ctx, "PLAN", 6 + Min(ShortText, PLAN_LIMIT) + 1))
         /\ pc' = "react"
         /\ UNCHANGED <<steps, loop_exit, failure, finalize_calls, prompt_ctx,
                        final_update, payload, post, page, job, graph, browser, result>>

\* _react_loop after generate returned: parse the step and act on it
StepReturned(r) ==
    LET parsed == parse_json(r.shape) IN
    IF parsed = "fail" \/ (parsed = "dict" /\ r.action = "other")
    THEN \* break: unparseable text, or unknown action
         /\ loop_exit' = (IF parsed = "fail" THEN "parse" ELSE "unknown")
         /\ pc' = "submit"
         /\ prompt_ctx' = <<>>
         /\ UNCHANGED <<ctxVars, steps, failure, finalize_calls,
                        submission_template, final_update, payload, post, page, job, graph, browser,
                        submit_url, result>>
    ELSE IF parsed = "other"
    THEN \* step.get on a list / number / string / None: AttributeError
         RoundRaises("react_step") /\ UNCHANGED ctxVars
    ELSE IF r.action = "final"
    THEN /\ submission_template' = Merge(submission_template, updated_submission(r))
         /\ final_update' = Some(r.answer)
         /\ SetCtx(CtxAppend(Ctx, "FINAL", ShortText))
         /\ loop_exit' = "final"
         /\ pc' = "submit"
         /\ prompt_ctx' = <<>>
         /\ UNCHANGED <<steps, failure, finalize_calls, payload, post, page, job, graph, browser,
                        submit_url,
                        result>>
    ELSE \* action == "tool": THOUGHT entry, then _execute_tool_step.
         \* tool_registry.get raises KeyError for a name that is not
         \* registered ("nosuch"), TypeError for a tool_name that is a JSON
         \* list or object ("unhashable"); only KeyError is caught
         CASE r.tool = "nosuch" ->
                /\ SetCtx(CtxAppend(CtxAppend(Ctx, "THOUGHT", ShortText), "ERROR", ShortText))
                /\ pc' = "react"
                /\ UNCHANGED <<steps, loop_exit, failure, finalize_calls, prompt_ctx,
                               submission_template, final_update, payload, post, page, job,
                               graph, browser,
                               submit_url, result>>
           [] r.tool = "unhashable" ->
                /\ SetCtx(CtxAppend(Ctx, "THOUGHT", ShortText))
                /\ RoundRaises("tool_step")
           [] OTHER ->
                /\ SetCtx(CtxAppend(Ctx, "THOUGHT", ShortText))
                /\ pc' = "tool"
                /\ UNCHANGED <<steps, loop_exit, failure, finalize_calls, prompt_ctx,
                               submission_template, final_update, payload, post, page, job,
                               graph, browser,
                               submit_url, result>>

\* _submit_answer from the setdefault calls to the first await of send_request
BuildPayload_without_defaults(tmpl) ==
    /\ submission_template' = tmpl
    /\ payload' = Some(submission_template')
    /\ pc' = "post"

BuildPayload(tmpl) ==
    /\ submission_template' =
          setdefault(setdefault(setdefault(setdefault(tmpl,
              "email", "EMAIL"), "url", ""), "secret", "SECRET"), "answer", "null")
    /\ payload' = Some(submission_template')
    /\ pc' = "post"

\* _force_finalize after generate returned, then the rest of _submit_answer
FinalizeReturned(r) ==
    LET parsed == parse_json(r.shape) IN
    IF parsed = "other" THEN RoundRaises("finalize_type") /\ UNCHANGED ctxVars
    ELSE /\ IF parsed = "fail"
            THEN BuildPayload(submission_template) /\ UNCHANGED ctxVars
            ELSE /\ BuildPayload(Merge(submission_template, updated_submission(r)))
                 /\ SetCtx(CtxAppend(Ctx, "FORCED", ShortText))
         /\ UNCHANGED <<steps, loop_exit, failure, finalize_calls, prompt_ctx,
                        final_update, post, page, job, graph, browser, submit_url, result>>

\* a caller outside the round (summarize_text, QuizSolver) gets the text
ClientReturned(r) ==
    /\ result' = Some(r)
    /\ pc' = "returned"
    /\ UNCHANGED <<ctxVars, steps, loop_exit, failure, finalize_calls, prompt_ctx,
                   submission_template, final_update, payload, post, page, job, graph, browser,
                   submit_url>>

GenerateReturned(caller, r) ==
    CASE caller = "plan" -> PlanReturned(r)
      [] caller = "react" -> StepReturned(r)
      [] caller = "client" -> ClientReturned(r)
      [] OTHER -> FinalizeReturned(r)

\* generate raised QuizSolverError into its caller; no caller of the round
\* catches it
GenerateRaised(caller) ==
    /\ RoundRaises(CASE caller = "plan" -> "plan_llm"
                     [] caller = "react" -> "react_llm"
                     [] caller = "client" -> "client_llm"
                     [] OTHER -> "finalize_llm")
    /\ UNCHANGED ctxVars

\* --- LLMClient.generate ------------------------------------------------------
\* _call_with_retries raised for provider p: generate records the failure and
\* goes on to the next provider of the order, or raises after the last one
\* (g is the record of the call after the try that failed, if one was made)
ProviderFailed(p, err, g) ==
    /\ status' = [status EXCEPT ![p] = LLMProviderStatus(FALSE, err)]
    /\ IF g.idx < Len(order)
       THEN /\ gen' = [g EXCEPT !.idx = g.idx + 1, !.attempt = 0]
            /\ UNCHANGED <<ctxVars, roundVars>>
       ELSE /\ gen' = [g EXCEPT !.outcome = "raised"]
            /\ GenerateRaised(g.caller)

\* `if timer is not None` and `remaining < 5.0` at the top of an attempt
timer_refuses == gen.timed /\ too_late(remaining(start_time, timeout, now))

\* the timer check at the top of an attempt finds too little time left
LLMGuardAbort ==
    /\ pc = "llm"
    /\ timer_refuses
    /\ ProviderFailed(order[gen.idx], "aborted", gen)
    /\ UNCHANGED <<now, timerVars, primary, fallback_enabled>>

\* outcomes of a provider call: the round exercises CallErrors, a call made
\* outside a round every kind of error
Outcomes(caller) == {"ok"} \cup (IF caller = "client" THEN ErrorKinds ELSE CallErrors)

\* one attempt: backoff sleep, then the provider call, which succeeds or fails
\* (delays: how long the call can take; bound: the step bound of the
\* responses)
LLMTryOf(delays, bound) ==
    /\ pc = "llm"
    /\ ~timer_refuses
    /\ \E d \in delays, out \in Outcomes(gen.caller) :
          LET p == order[gen.idx]
              slept == backoffs[gen.attempt + 1]
              g == [gen EXCEPT !.calls = gen.calls + 1,
                               !.tries = Append(gen.tries, [provider |-> p, slept |-> slept]),
                               !.last = out]
          IN
          /\ now' = Later(slept + d)
          /\ IF out = "ok"
             THEN /\ status' = [status EXCEPT ![p] = LLMProviderStatus(TRUE, "none")]
                  /\ \E r \in ResponsesWithin(gen.caller, bound) :
                        /\ gen' = [g EXCEPT !.outcome = "returned", !.reply = r]
                        /\ GenerateReturned(gen.caller, r)
             ELSE IF ~is_retriable_error(out) \/ gen.attempt = LLM_MAX_ATTEMPTS - 1
             THEN ProviderFailed(p, out, g)
             ELSE /\ gen' = [g EXCEPT !.attempt = gen.attempt + 1]
                  /\ UNCHANGED <<status, ctxVars, roundVars>>
    /\ UNCHANGED <<timerVars, primary, fallback_enabled>>

LLMTry == LLMTryOf(IoDelays, MaxSteps)

\* --- _react_loop -----------------------------------------------------------
\* top of the while loop: leave on should_force_submit(), else build the
\* prompt and enter llm.generate
ReactTop_keeps_going ==
    /\ pc = "react"
    /\ prompt_ctx' = prompt_window(context_log)
    /\ steps' = steps + 1
    /\ gen' = NewGen("react", now)
    /\ pc' = "llm"
    /\ loop_exit' = IF should_force_submit(start_time, timeout, now) THEN "deadline"
                    ELSE loop_exit
    /\ UNCHANGED <<now, timerVars, ctxVars, primary, fallback_enabled, status, failure,
                   finalize_calls, submission_template, final_update, payload, post, page, job,
                   graph, browser, submit_url, result>>

\* the top of `while not self.timer.should_force_submit()`
ReactTop ==
    /\ pc = "react"
    /\ IF should_force_submit(start_time, timeout, now)
       THEN /\ loop_exit' = "deadline"
            /\ pc' = "submit"
            /\ prompt_ctx' = <<>>
            /\ gen' = NoGen
            /\ UNCHANGED steps
       ELSE /\ prompt_ctx' = prompt_window(context_log)
            /\ steps' = steps + 1
            /\ gen' = NewGen("react", now)
            /\ pc' = "llm"
            /\ UNCHANGED loop_exit
    /\ UNCHANGED <<now, timerVars, ctxVars, primary, fallback_enabled, status, failure,
                   finalize_calls, submission_template, final_update, payload, post, page, job,
                   graph, browser,
                   submit_url, result>>

ToolReturn_without_observation ==
    /\ pc = "tool"
    /\ \E d \in IoDelays :
          now' = Later(d)
    /\ pc' = "react"
    /\ gen' = NoGen
    /\ UNCHANGED <<timerVars, ctxVars, primary, fallback_enabled, status, steps, loop_exit,
                   failure, finalize_calls, prompt_ctx, submission_template, final_update,
                   payload, post, page, job, graph, browser, submit_url, result>>

\* _execute_tool_step: the awaited tool returns a result or raises
\* (delays: how long the tool can take)
ToolReturnOf(delays) ==
    /\ pc = "tool"
    /\ \E d \in delays :
          now' = Later(d)
    /\ \/ \E n \in {ShortText, LongText} :
             SetCtx(CtxAppend(Ctx, "OBS", ObservationLen(n)))
       \/ \E n \in {ShortText, LongText, HugeText} :
             SetCtx(CtxAppend(Ctx, "ERROR", n))
    /\ pc' = "react"
    /\ gen' = NoGen
    /\ UNCHANGED <<timerVars, primary, fallback_enabled, status, steps, loop_exit, failure,
                   finalize_calls, prompt_ctx, submission_template, final_update, payload,
                   post, page, job, graph, browser, submit_url, result>>

ToolReturn == ToolReturnOf(IoDelays)

\* --- _submit_answer --------------------------------------------------------
\* entry: _force_finalize when the timer has expired, else build the payload
SubmitEntry ==
    /\ pc = "submit"
    /\ IF should_force_submit(start_time, timeout, now)
       THEN /\ finalize_calls' = finalize_calls + 1
            /\ gen' = NewGen("finalize", now)
            /\ pc' = "llm"
            /\ UNCHANGED <<submission_template, payload>>
       ELSE /\ BuildPayload(submission_template)
            /\ gen' = NoGen
            /\ UNCHANGED finalize_calls
    /\ UNCHANGED <<now, timerVars, ctxVars, primary, fallback_enabled, status, steps,
                   loop_exit, failure, prompt_ctx, final_update, post, page, job, graph, browser,
                   submit_url,
                   result>>

\* send_request raised QuizSolverError into the `for attempt in range(2)` loop
\* (sent is the record of the requests after the last one made)
SendRequestRaised(sent) ==
    IF post.attempt = SUBMIT_ATTEMPTS - 1
    THEN /\ post' = sent
         /\ pc' = "failed"
         /\ failure' = "submit"
    ELSE /\ post' = [sent EXCEPT !.attempt = post.attempt + 1, !.try = 1]
         /\ UNCHANGED <<pc, failure>>

\* how one try of send_request can end: a response (2xx stands for every
\* status that is not an error, 4xx for a 4xx other than 429), an httpx
\* timeout or transport error, or any other exception.  Where post.follow
\* is "some", 429 stands for every outcome that is retried.
SendOutcomes(follow) ==
    IF follow = "all"
    THEN {"2xx", "4xx", "http429", "http5xx", "timeout", "transport", "unexpected"}
    ELSE {"2xx", "4xx", "http429", "unexpected"}

send_request_retries_every_4xx(out) ==
    out \in {"4xx", "http429", "http5xx", "timeout", "transport"}

\* the outcomes after which the loop of send_request goes round again
send_request_retries(out) == out \in {"http429", "http5xx", "timeout", "transport"}

\* one HTTP request of send_request (the timer is not read any more once the
\* payload is built, so the duration of the request is left out)
SendRequestTry ==
    /\ pc = "post"
    /\ \E out \in SendOutcomes(post.follow) :
          LET sent == [post EXCEPT !.wire = post.wire + 1, !.to = submit_url,
                                   !.body = payload, !.last = out] IN
          CASE send_request_retries(out) ->
                 /\ IF post.try = SEND_MAX_RETRIES
                    THEN SendRequestRaised(sent)
                    ELSE /\ post' = [sent EXCEPT !.try = post.try + 1]
                         /\ UNCHANGED <<pc, failure>>
                 /\ UNCHANGED result
            [] out = "unexpected" ->
                 /\ SendRequestRaised([post EXCEPT !.last = out])
                 /\ UNCHANGED result
            [] OTHER ->
                 \E next \in BOOLEAN :
                    /\ result' = Some([status |-> out, next |-> next])
                    /\ post' = sent
                    /\ pc' = "done"
                    /\ UNCHANGED failure
    /\ UNCHANGED <<now, timerVars, ctxVars, clientVars, steps, loop_exit, finalize_calls,
                   prompt_ctx, submission_template, final_update, payload, page, job, graph,
                   browser, submit_url>>

Next ==
    \/ SolveStart
    \/ LoadPage
    \/ LLMGuardAbort
    \/ LLMTry
    \/ ReactTop
    \/ ToolReturn
    \/ SubmitEntry
    \/ SendRequestTry

Spec == Init /\ [][Next]_vars

\* ---------------------------------------------------------------------------
\* PageSpec: one round of solve_one_question on any page (every form of
\* submit URL), with one client configuration and the longest budget
\* ---------------------------------------------------------------------------
PageInit ==
    /\ now = IoDelay
    /\ timeout = MaxBudget
    /\ start_time = None
    /\ timer_read = None
    /\ EmptyCtx
    /\ primary = "GEMINI"
    /\ fallback_enabled = FALSE
    /\ IdleClient
    /\ pc = "idle"
    /\ steps = 0
    /\ loop_exit = "none"
    /\ failure = "none"
    /\ finalize_calls = 0
    /\ prompt_ctx = <<>>
    /\ submission_template = EmptyTemplate
    /\ final_update = None
    /\ payload = None
    /\ post = NoPost
    /\ page \in Pages
    /\ job = NoJobs
    /\ graph = NoGraph
    /\ browser = NoBrowser
    /\ submit_url = None
    /\ result = None

PageSpec == PageInit /\ [][Next]_vars

\* ---------------------------------------------------------------------------
\* SubmitSpec: the two submission paths.  Either one round of
\* solve_one_question (QuestionAgent._submit_answer and send_request) on a
\* quiz URL of ordinary length or of more than 1 MB, or
\* QuizSolver._submit_answer with SubmissionHandler.submit_answer on the
\* answer data an analysis gave.
\* ---------------------------------------------------------------------------
\* answer_data: an answer may be missing, short, or a chart image; an
\* explanation may come with it
AnswerData == [answer : {"absent", "A1", "CHART"}, explanation : {"absent", "EXPL"}]

\* how one POST of SubmissionHandler.submit_answer can end
HandlerOutcomes ==
    {"2xx_correct", "2xx_wrong", "http400", "http404", "http429", "http5xx",
     "timeout", "transport"}

SubmitInit ==
    /\ now = IoDelay
    /\ timeout = MaxBudget
    /\ timer_read = None
    /\ EmptyCtx
    /\ primary = "GEMINI"
    /\ fallback_enabled = FALSE
    /\ IdleClient
    /\ steps = 0
    /\ loop_exit = "none"
    /\ failure = "none"
    /\ finalize_calls = 0
    /\ prompt_ctx = <<>>
    /\ submission_template = EmptyTemplate
    /\ final_update = None
    /\ payload = None
    /\ post = [NoPost EXCEPT !.follow = "all"]
    /\ result = None
    /\ page \in {QuizPage, LongPage}
    /\ job = NoJobs
    /\ graph = NoGraph
    /\ browser = NoBrowser
    /\ \/ /\ pc = "idle"
          /\ start_time = None
          /\ submit_url = None
       \/ /\ pc = "quiz_submit"
          /\ start_time = Some(now)
          /\ submit_url = Some(make_absolute_submit_url(page.base_url, page.submit_url))

\* QuizSolver._submit_answer, then SubmissionHandler.submit_answer up to its
\* first POST: build the payload, collapse it if validate_payload refuses
\* it, raise SubmissionError if it is still over 1 MB
QuizSubmitAnswer ==
    /\ pc = "quiz_submit"
    /\ \E answer_data \in AnswerData :
          LET answer == IF answer_data.answer = "absent" THEN "null"
                        ELSE answer_data.answer
              built == [answer |-> answer, explanation |-> answer_data.explanation]
              sized == IF validate_payload(built) THEN built
                       ELSE [answer |-> str_cut(answer), explanation |-> "absent"]
          IN
          /\ payload' = Some(sized)
          /\ IF JsonBytes(sized) > MAX_PAYLOAD_BYTES
             THEN pc' = "failed" /\ failure' = "payload_too_large"
             ELSE pc' = "handler" /\ UNCHANGED failure
    /\ UNCHANGED <<now, timerVars, ctxVars, clientVars, steps, loop_exit, finalize_calls,
                   prompt_ctx, submission_template, final_update, post, page, job, graph,
                   browser, submit_url,
                   result>>

\* _force_submit_partial: payload = {"answer": 0, "note": ...}
PartialPayload == [answer |-> "ZERO", note |-> "NOTE"]

\* the payload in hand is the one _force_submit_partial built
partial == payload # None /\ "note" \in DOMAIN Val(payload)

\* submit_answer raised SubmissionError: _submit_answer lets it through,
\* _force_submit_partial catches it and returns {"correct": False, "url": None}
HandlerRaised(why) ==
    IF partial
    THEN /\ result' = Some([status |-> "none", next |-> FALSE])
         /\ pc' = "done"
         /\ UNCHANGED failure
    ELSE /\ pc' = "failed"
         /\ failure' = why
         /\ UNCHANGED result

\* one pass of `for attempt in range(1, self.max_retries + 1)`: the POST, then
\* return the body, raise, or sleep 2**attempt seconds and go round again
HandlerPost ==
    /\ pc = "handler"
    /\ \E out \in HandlerOutcomes :
          LET sent == [post EXCEPT !.wire = post.wire + 1, !.to = submit_url,
                                   !.body = payload, !.last = out] IN
          CASE out \in {"2xx_correct", "2xx_wrong"} ->
                 \E next \in BOOLEAN :
                    /\ result' = Some([status |-> "2xx", next |-> next])
                    /\ post' = sent
                    /\ pc' = "done"
                    /\ UNCHANGED <<now, failure>>
            [] out = "http400" ->
                 /\ post' = sent
                 /\ HandlerRaised("bad_request")
                 /\ UNCHANGED now
            [] OTHER ->
                 IF post.try = HANDLER_MAX_RETRIES
                 THEN /\ post' = sent
                      /\ HandlerRaised("submission")
                      /\ UNCHANGED now
                 ELSE /\ post' = [sent EXCEPT !.try = post.try + 1]
                      /\ now' = Later((2 ^ post.try) * TicksPerSecond)
                      /\ UNCHANGED <<pc, failure, result>>
    /\ UNCHANGED <<timerVars, ctxVars, clientVars, steps, loop_exit, finalize_calls,
                   prompt_ctx, submission_template, final_update, payload, page, job, graph,
                   browser,
                   submit_url>>

SubmitNext == Next \/ QuizSubmitAnswer \/ HandlerPost

SubmitSpec == SubmitInit /\ [][SubmitNext]_vars

\* ---------------------------------------------------------------------------
\* QuizSpec: one call of QuizSolver.solve_question: load the page, download
\* and parse its files, analyze, submit; the timer is read between the steps
\* ---------------------------------------------------------------------------
QuizInit ==
    /\ now = IoDelay
    /\ timeout \in RoundBudgets
    /\ start_time = None
    /\ timer_read = None
    /\ EmptyCtx
    /\ primary = "GEMINI"
    /\ fallback_enabled = FALSE
    /\ IdleClient
    /\ pc = "quiz_idle"
    /\ steps = 0
    /\ loop_exit = "none"
    /\ failure = "none"
    /\ finalize_calls = 0
    /\ prompt_ctx = <<>>
    /\ submission_template = EmptyTemplate
    /\ final_update = None
    /\ payload = None
    /\ post = NoPost
    /\ page = QuizPage
    /\ job = NoJobs
    /\ graph = NoGraph
    /\ browser = NoBrowser
    /\ submit_url = None
    /\ result = None

\* `"submit_url" in locals()` inside solve_question, whose local names are
\* self, url, page_data, files, parsed_data, answer, result and e
submit_url_in_locals == FALSE

\* _force_submit_partial up to the first POST of submit_answer
ForceSubmitPartial ==
    /\ payload' = Some(PartialPayload)
    /\ pc' = "handler"
    /\ UNCHANGED failure

\* the `except Exception` of solve_question, entered from step why
QuizFailed(why) ==
    IF submit_url_in_locals
    THEN ForceSubmitPartial
    ELSE /\ pc' = "failed"
         /\ failure' = why
         /\ UNCHANGED payload

\* solve_question: timer.start(), then the await of _load_and_extract_page
QuizSolveStart ==
    /\ pc = "quiz_idle"
    /\ start_time' = Some(now)
    /\ pc' = "quiz_load"
    /\ UNCHANGED <<now, timeout, timer_read, ctxVars, clientVars, steps, loop_exit,
                   failure, finalize_calls, prompt_ctx, submission_template,
                   final_update, payload, post, page, job, graph, browser, submit_url, result>>

\* _load_and_extract_page returns page_data with its submit_url, or raises
\* BrowserError
QuizLoadPage ==
    /\ pc = "quiz_load"
    /\ \E d \in IoDelays, ok \in BOOLEAN :
          /\ now' = Later(d)
          /\ IF ok
             THEN /\ submit_url' =
                        Some(make_absolute_submit_url(page.base_url, page.submit_url))
                  /\ pc' = "quiz_download"
                  /\ UNCHANGED <<failure, payload>>
             ELSE /\ QuizFailed("quiz_load")
                  /\ UNCHANGED submit_url
    /\ UNCHANGED <<timerVars, ctxVars, clientVars, steps, loop_exit, finalize_calls,
                   prompt_ctx, submission_template, final_update, post, page, job, graph,
                   browser, result>>

\* the step after the one that ended at pc
QuizAfter(at) ==
    CASE at = "quiz_download" -> "quiz_parse"
      [] at = "quiz_parse" -> "quiz_analyze"
      [] at = "quiz_analyze" -> "quiz_submit"

\* steps 2 to 4 of solve_question (_download_files, _parse_files,
\* _analyze_and_generate_answer), each behind `if self.timer.should_force_submit()`
QuizStep ==
    /\ pc \in {"quiz_download", "quiz_parse", "quiz_analyze"}
    /\ IF should_force_submit(start_time, timeout, now)
       THEN ForceSubmitPartial /\ UNCHANGED now
       ELSE \E d \in IoDelays, ok \in BOOLEAN :
               /\ now' = Later(IF pc = "quiz_parse" THEN 0 ELSE d)
               /\ IF ok
                  THEN pc' = QuizAfter(pc) /\ UNCHANGED <<failure, payload>>
                  ELSE QuizFailed(pc)
    /\ UNCHANGED <<timerVars, ctxVars, clientVars, steps, loop_exit, finalize_calls,
                   prompt_ctx, submission_template, final_update, post, page, job, graph, browser,
                   submit_url, result>>

QuizNext == QuizSolveStart \/ QuizLoadPage \/ QuizStep \/ QuizSubmitAnswer \/ HandlerPost

QuizSpec == QuizInit /\ [][QuizNext]_vars

\* ---------------------------------------------------------------------------
\* JobSpec: two jobs running concurrently as background tasks, each a call
\* of run_solver_job by either runner.  A round (solve_one_question,
\* solve_question) is taken as a whole by its outcome: it returns the body of
\* the submission response, with or without a next `url`, or it raises.
\* ---------------------------------------------------------------------------
JobInit ==
    /\ now = IoDelay
    /\ timeout = MaxBudget
    /\ start_time = None
    /\ timer_read = None
    /\ EmptyCtx
    /\ primary = "GEMINI"
    /\ fallback_enabled = FALSE
    /\ IdleClient
    /\ pc = "idle"
    /\ steps = 0
    /\ loop_exit = "none"
    /\ failure = "none"
    /\ finalize_calls = 0
    /\ prompt_ctx = <<>>
    /\ submission_template = EmptyTemplate
    /\ final_update = None
    /\ payload = None
    /\ post = NoPost
    /\ page = QuizPage
    /\ submit_url = None
    /\ result = None
    /\ job \in [JobIds -> {NewJob(runner) : runner \in Runners}]
    /\ graph = NoGraph
    /\ browser = NoBrowser

\* run_solver_job is called: current_url = request.url
JobStart(j) ==
    /\ job[j].state = "idle"
    /\ \E url \in ChainUrls :
          job' = [job EXCEPT ![j].state = "top", ![j].current_url = Some(url)]
    /\ UNCHANGED <<now, timerVars, ctxVars, clientVars, agentVars, graph, browser>>

\* the while test: start the next round on current_url, or leave the loop
JobLoopTop(j) ==
    /\ job[j].state = "top"
    /\ IF chain_goes_on(job[j].runner, job[j].current_url, job[j].question_index)
       THEN /\ job[j].question_index < job[j].limit
            /\ job' = [job EXCEPT ![j].state = "round",
                                  ![j].question_index = job[j].question_index + 1,
                                  ![j].round_url = job[j].current_url]
       ELSE job' = [job EXCEPT ![j].state = "finished"]
    /\ UNCHANGED <<now, timerVars, ctxVars, clientVars, agentVars, graph, browser>>

\* a generate call made by the round of job j ends for one provider: the
\* module-level llm_client, which every job is given, records the outcome
JobProviderOutcome(j) ==
    /\ job[j].state = "round"
    /\ \E i \in 1 .. Len(order), out \in Outcomes("round") \cup {"aborted"} :
          LET st == IF out = "ok" THEN LLMProviderStatus(TRUE, "none")
                    ELSE LLMProviderStatus(FALSE, out)
          IN
          /\ status' = [status EXCEPT ![order[i]] = st]
          /\ job' = [job EXCEPT ![j].recorded = Some([provider |-> order[i], status |-> st])]
    /\ UNCHANGED <<now, timerVars, ctxVars, primary, fallback_enabled, gen, agentVars,
                   graph, browser>>

\* the round returned result: next_url = result.get("url")
JobRoundReturned(j) ==
    /\ job[j].state = "round"
    /\ \E next_url \in {None} \cup {Some(url) : url \in ChainUrls} :
          job' = [job EXCEPT ![j].state = "top",
                             ![j].current_url = next_url,
                             ![j].last_url = next_url,
                             ![j].answered = job[j].answered + 1]
    /\ UNCHANGED <<now, timerVars, ctxVars, clientVars, agentVars, graph, browser>>

\* the round raised: `except Exception` logs the failure and re-raises
JobRoundRaised(j) ==
    /\ job[j].state = "round"
    /\ job' = [job EXCEPT ![j].state = "failed", ![j].raised = TRUE]
    /\ UNCHANGED <<now, timerVars, ctxVars, clientVars, agentVars, graph, browser>>

JobNext ==
    \E j \in JobIds :
       JobStart(j) \/ JobLoopTop(j) \/ JobRoundReturned(j) \/ JobRoundRaised(j)

JobSpec == JobInit /\ [][JobNext]_vars

\* ---------------------------------------------------------------------------
\* SharedSpec: two concurrent jobs as in JobSpec, with the reasoning calls
\* their rounds make on the one llm_client followed
\* ---------------------------------------------------------------------------
SharedInit ==
    /\ now = IoDelay
    /\ timeout = MaxBudget
    /\ start_time = None
    /\ timer_read = None
    /\ EmptyCtx
    /\ primary = "GEMINI"
    /\ fallback_enabled = FALSE
    /\ IdleClient
    /\ pc = "idle"
    /\ steps = 0
    /\ loop_exit = "none"
    /\ failure = "none"
    /\ finalize_calls = 0
    /\ prompt_ctx = <<>>
    /\ submission_template = EmptyTemplate
    /\ final_update = None
    /\ payload = None
    /\ post = NoPost
    /\ page = QuizPage
    /\ submit_url = None
    /\ result = None
    /\ job \in [JobIds -> {[NewJob(runner) EXCEPT !.limit = ShortChain] : runner \in Runners}]
    /\ graph = NoGraph
    /\ browser = NoBrowser

SharedNext ==
    \E j \in JobIds :
       \/ JobStart(j)
       \/ JobLoopTop(j)
       \/ JobProviderOutcome(j)
       \/ JobRoundReturned(j)
       \/ JobRoundRaised(j)

SharedSpec == SharedInit /\ [][SharedNext]_vars

\* ---------------------------------------------------------------------------
\* BrowserSpec: load_page calls of concurrent jobs on browser_manager, and
\* close(); a call gives way to the others at each of its awaits
\* ---------------------------------------------------------------------------
BrowserFrame == UNCHANGED <<now, timerVars, ctxVars, clientVars, agentVars, job, graph>>

\* load_page up to its first await: `if not self._initialized`, then
\* initialize() up to `await async_playwright().start()`, or on to new_page
LoadPageEnter(c) ==
    /\ browser.at[c] = "idle"
    /\ browser' = [browser EXCEPT !.at[c] = IF browser.initialized THEN "page" ELSE "start"]
    /\ BrowserFrame

\* async_playwright().start() returned or raised; then
\* `await self.playwright.chromium.launch(...)`
PlaywrightStarted(c) ==
    /\ browser.at[c] = "start"
    /\ \E ok \in BOOLEAN :
          browser' = IF ok THEN [browser EXCEPT !.playwright = c, !.at[c] = "launch"]
                     ELSE [browser EXCEPT !.at[c] = "idle"]
    /\ BrowserFrame

\* chromium.launch returned or raised; then self._initialized = True and
\* load_page goes on to `await self.browser.new_page()`
BrowserLaunched(c) ==
    /\ browser.at[c] = "launch"
    /\ \E ok \in BOOLEAN :
          browser' = IF ok
                     THEN [browser EXCEPT !.browser = c, !.initialized = TRUE,
                                          !.launched = browser.launched + 1,
                                          !.at[c] = "page"]
                     ELSE [browser EXCEPT !.at[c] = "idle"]
    /\ BrowserFrame

\* the rest of load_page: the page is loaded, or BrowserError is raised
PageLoaded(c) ==
    /\ browser.at[c] = "page"
    /\ browser' = [browser EXCEPT !.at[c] = "idle"]
    /\ BrowserFrame

\* close(), awaited by the lifespan at shutdown: the attributes keep their
\* objects
BrowserClose ==
    /\ browser' = [browser EXCEPT !.initialized = FALSE, !.launched = 0]
    /\ BrowserFrame

BrowserInit ==
    /\ now = IoDelay
    /\ timeout = MaxBudget
    /\ start_time = None
    /\ timer_read = None
    /\ EmptyCtx
    /\ primary = "GEMINI"
    /\ fallback_enabled = FALSE
    /\ IdleClient
    /\ IdleRound

BrowserNext ==
    \/ \E c \in Callers : \/ LoadPageEnter(c)
                          \/ PlaywrightStarted(c)
                          \/ BrowserLaunched(c)
                          \/ PageLoaded(c)
    \/ BrowserClose

BrowserSpec == BrowserInit /\ [][BrowserNext]_vars

\* ---------------------------------------------------------------------------
\* LiveSpec: one round in which every reasoning call and every tool call
\* returns and takes at least LiveDelay; the responses ask for tools as long
\* as the loop runs
\* ---------------------------------------------------------------------------
LiveDelays == {IoDelay \div 2, IoDelay}

LiveInit ==
    /\ now = IoDelay
    /\ timeout = MaxBudget
    /\ start_time = None
    /\ timer_read = None
    /\ EmptyCtx
    /\ primary = "GEMINI"
    /\ fallback_enabled = FALSE
    /\ IdleClient
    /\ IdleRound

\* every pass of the loop takes a reasoning call of at least a tick, so the
\* bound of MaxBudget steps is never met
LiveLLMTry == LLMTryOf(LiveDelays, MaxBudget)

LiveToolReturn == ToolReturnOf(LiveDelays)

LiveNext ==
    \/ SolveStart
    \/ LoadPage
    \/ LLMGuardAbort
    \/ LiveLLMTry
    \/ ReactTop
    \/ LiveToolReturn
    \/ SubmitEntry
    \/ SendRequestTry

LiveSpec == LiveInit /\ [][LiveNext]_vars /\ WF_vars(LiveNext)

\* ---------------------------------------------------------------------------
\* IdentitySpec: one round on a page that shows email and url fields
\* ---------------------------------------------------------------------------
IdentityInit ==
    /\ now = IoDelay
    /\ timeout = MaxBudget
    /\ start_time = None
    /\ timer_read = None
    /\ EmptyCtx
    /\ primary = "GEMINI"
    /\ fallback_enabled = FALSE
    /\ IdleClient
    /\ pc = "idle"
    /\ steps = 0
    /\ loop_exit = "none"
    /\ failure = "none"
    /\ finalize_calls = 0
    /\ prompt_ctx = <<>>
    /\ submission_template = EmptyTemplate
    /\ final_update = None
    /\ payload = None
    /\ post = NoPost
    /\ page = IdentityPage
    /\ job = NoJobs
    /\ graph = NoGraph
    /\ browser = NoBrowser
    /\ submit_url = None
    /\ result = None

IdentitySpec == IdentityInit /\ [][Next]_vars

\* ---------------------------------------------------------------------------
\* GraphSpec: one call of runagent_with_timeout: the graph of agent.py runs
\* in a worker thread while the coroutine waits for it with a timeout
\* ---------------------------------------------------------------------------
GraphInit ==
    /\ now = IoDelay
    /\ timeout = MaxBudget
    /\ start_time = None
    /\ timer_read = None
    /\ EmptyCtx
    /\ primary = "GEMINI"
    /\ fallback_enabled = FALSE
    /\ IdleClient
    /\ IdleRound

GraphLater(d) == Min(now + d, graph.t0 + MaxGraphClock * TicksPerSecond)

GraphDelays == {0, GraphDelay * TicksPerSecond}

GraphFrame == UNCHANGED <<timerVars, ctxVars, clientVars, agentVars, job, browser>>

\* runagent_with_timeout: run_in_executor(None, runagent, url), then
\* wait_for; run_agent invokes the graph with task_start_time = time.time()
GraphStart ==
    /\ graph.node = "idle"
    /\ graph' = [NoGraph EXCEPT !.node = "agent", !.last = "human",
                                !.task_start_time = now, !.t0 = now, !.watch = "waiting"]
    /\ UNCHANGED now
    /\ GraphFrame

\* agent_node; past recursion_limit nodes the graph raises
\* GraphRecursionError, which run_agent logs
AgentNode ==
    /\ graph.node = "agent"
    /\ graph.supersteps < Min(RECURSION_LIMIT, MaxGraphSteps)
    /\ LET current_time == now
           el == current_time - graph.task_start_time
           g == [graph EXCEPT !.supersteps = graph.supersteps + 1]
           v == verdict(graph, el)
       IN
       CASE v = "next_task" ->
              /\ graph' = [g EXCEPT !.last = "human", !.tool = "none", !.answer = "none",
                                    !.resp = "none", !.task_start_time = current_time,
                                    !.attempts = 0, !.injected = 0]
              /\ UNCHANGED now
         [] v = "end" \/ (v = "none" /\ stuck_in_skip_loop(graph)) ->
              /\ graph' = [g EXCEPT !.last = "END", !.node = "end", !.attempts = 0]
              /\ UNCHANGED now
         [] OTHER ->
              LET attempts == IF v = "retry" THEN graph.attempts + 1 ELSE graph.attempts
                  slept == IF v = "retry" THEN 2 * TicksPerSecond ELSE 0
                  forced == force_skip(attempts, el)
                  said == [g EXCEPT !.attempts = IF forced THEN 0 ELSE attempts,
                                    !.injected = IF forced THEN Min(g.injected + 1, 2)
                                                 ELSE g.injected]
              IN
              \E d \in GraphDelays, raised \in BOOLEAN :
                 /\ now' = GraphLater(slept + d + (3 * TicksPerSecond) \div 2)
                 /\ IF raised
                    THEN graph' = [said EXCEPT !.last = "error", !.node = "end"]
                    ELSE \E r \in LlmResults :
                            graph' = [said EXCEPT !.last = r.last, !.tool = r.tool,
                                                  !.answer = r.answer, !.resp = "none",
                                                  !.node = route(r.last)]
    /\ GraphFrame

\* ToolNode(TOOLS): the tool the model asked for runs; post_request POSTs
ToolsNode ==
    /\ graph.node = "tools"
    /\ graph.supersteps < Min(RECURSION_LIMIT, MaxGraphSteps)
    /\ \E d \in GraphDelays,
          resp \in (IF graph.tool = "post" THEN PostResponses ELSE {"none"}) :
          /\ now' = GraphLater(d)
          /\ graph' = [graph EXCEPT !.supersteps = graph.supersteps + 1,
                                    !.last = "tool", !.resp = resp, !.node = "agent",
                                    !.after_dummy = graph.after_dummy
                                                    \/ graph.watch = "timed_out"]
    /\ GraphFrame

\* asyncio.wait_for raises TimeoutError: the dummy submission is posted
WatcherTimeout ==
    /\ graph.watch = "waiting"
    /\ graph.node # "end"
    /\ now - graph.t0 >= DUMMY_SUBMISSION_DEADLINE * TicksPerSecond
    /\ graph' = [graph EXCEPT !.watch = "timed_out"]
    /\ UNCHANGED now
    /\ GraphFrame

\* the agent's future completed within the time limit
WatcherDone ==
    /\ graph.watch = "waiting"
    /\ graph.node = "end"
    /\ graph' = [graph EXCEPT !.watch = "done"]
    /\ UNCHANGED now
    /\ GraphFrame

GraphNext == GraphStart \/ AgentNode \/ ToolsNode \/ WatcherTimeout \/ WatcherDone

GraphSpec == GraphInit /\ [][GraphNext]_vars

\* ---------------------------------------------------------------------------
\* ClientSpec: the module-level llm_client on its own, any number of generate
\* calls one after another on the same client: without a timer, as
\* summarize_text and QuizSolver call it, or with a running QuestionTimer
\* ---------------------------------------------------------------------------
ClientInit ==
    /\ now = 0
    /\ timeout = MaxBudget \div 2
    /\ start_time = Some(0)
    /\ timer_read = None
    /\ EmptyCtx
    /\ primary \in Providers
    /\ fallback_enabled \in BOOLEAN
    /\ IdleClient
    /\ IdleRound

\* a caller enters generate; the previous call, if any, has ended
ClientGenerate ==
    /\ pc \in {"idle", "returned", "failed"}
    /\ \E timed \in BOOLEAN :
          gen' = [NewGen("client", now) EXCEPT !.timed = timed]
    /\ pc' = "llm"
    /\ failure' = "none"
    /\ result' = None
    /\ UNCHANGED <<now, timerVars, ctxVars, primary, fallback_enabled, status, steps,
                   loop_exit, finalize_calls, prompt_ctx, submission_template,
                   final_update, payload, post, page, job, graph, browser, submit_url>>

ClientNext == ClientGenerate \/ LLMGuardAbort \/ LLMTry

ClientSpec == ClientInit /\ [][ClientNext]_vars

\* ---------------------------------------------------------------------------
\* History helpers used by the properties
\* ---------------------------------------------------------------------------
\* the concatenation of every entry ever appended
RECURSIVE AllFrom(_, _)
AllFrom(hist, i) ==
    IF i > Len(hist) THEN <<>> ELSE Entry(i, hist[i].len) \o AllFrom(hist, i + 1)

AllAppended == AllFrom(appended, 1)

\* ---------------------------------------------------------------------------
\* C1
\* ---------------------------------------------------------------------------
\* C1: every read of a started timer with budget B = timeout, started at
\* T = start_time and read at t >= T, returns remaining = max(0, B - (t - T)),
\* should_force_submit false for t < T + B and true for t >= T + B, hence
\* should_force_submit exactly when remaining = 0.
C1_TimerReads ==
    (timer_read # None /\ start_time # None) =>
        LET r == Val(timer_read)
            t == r.at
            T == Val(start_time)
            B == timeout
        IN /\ t >= T
           /\ r.remaining = (IF B - (t - T) > 0 THEN B - (t - T) ELSE 0)
           /\ (t < T + B => ~r.force)
           /\ (t >= T + B => r.force)
           /\ (r.force <=> r.remaining = 0)

\* a read strictly inside the budget and a read after it both happened
C1_Witness ==
    /\ timer_read # None
    /\ start_time # None
    /\ Val(start_time) > 0
    /\ timeout > 0
    /\ Val(timer_read).at >= Val(start_time) + timeout
    /\ Val(timer_read).force

\* ---------------------------------------------------------------------------
\* C10
\* ---------------------------------------------------------------------------
\* C10: after every sequence of _append_context calls the log is at most
\* CONTEXT_CAP characters long, and it is a contiguous suffix of the
\* concatenation of all appended entries (in particular after a trim).
C10_CapAndSuffix ==
    /\ StrLen(context_log) <= CONTEXT_CAP
    /\ context_log = Suffix(AllAppended, StrLen(context_log))
    /\ (trimmed => StrLen(context_log) < StrLen(AllAppended))

\* the log has been trimmed and has grown again afterwards
C10_Witness ==
    /\ trimmed
    /\ Len(context_log) >= 2
    /\ StrLen(context_log) > CONTEXT_KEEP

\* ---------------------------------------------------------------------------
\* C2
\* ---------------------------------------------------------------------------
\* C2: a call of generate entered with less than 5 s remaining on the timer
\* makes no provider network call and never returns a text: while it runs the
\* timer check rejects every attempt, and it ends by raising.  This holds for
\* both primary providers and both values of the fallback flag (Init draws them).
C2_LateGenerateMakesNoCall ==
    (gen.caller # "none" /\ gen.entry < 5 * TicksPerSecond) =>
        /\ gen.calls = 0
        /\ gen.outcome \in {"running", "raised"}
        /\ (gen.outcome = "running" =>
               timeout - (now - Val(start_time)) < 5 * TicksPerSecond)
        /\ (gen.outcome = "raised" => pc = "failed")

\* a ReAct-step generate entered with 0 < remaining < 5 s has raised after
\* both providers of the order were refused, without any call
C2_Witness ==
    /\ gen.caller = "react"
    /\ gen.entry > 0
    /\ gen.entry < 5 * TicksPerSecond
    /\ fallback_enabled
    /\ gen.idx = 2
    /\ gen.outcome = "raised"
    /\ gen.calls = 0

\* ---------------------------------------------------------------------------
\* C3
\* ---------------------------------------------------------------------------
\* C3: when the ReAct loop is left because should_force_submit() became true
\* (no `final` action was received), the finished round has entered
\* _force_finalize exactly once, that finalization made exactly one provider
\* call, and a submission was POSTed.
C3_DeadlineFinalizesOnceThenPosts ==
    (loop_exit = "deadline" /\ pc \in {"done", "failed"}) =>
        /\ finalize_calls = 1
        /\ gen.caller = "finalize"
        /\ gen.calls = 1
        /\ post.wire >= 1

\* ---------------------------------------------------------------------------
\* C4
\* ---------------------------------------------------------------------------
\* C4: when the reasoning call of _force_finalize raises, the round is not
\* aborted: it goes on to build the payload and POST it.
C4_FinalizeFailureDoesNotAbort ==
    (gen.caller = "finalize" /\ gen.outcome = "raised") => pc # "failed"

\* ---------------------------------------------------------------------------
\* C5
\* ---------------------------------------------------------------------------
\* C5: when the ReAct loop is left on an unparseable response or an unknown
\* action, exactly one forced finalization has been issued by the time the
\* payload is built and submitted, whether or not the deadline has expired.
C5_ParseFailureFinalizesOnce ==
    (loop_exit \in {"parse", "unknown"} /\ pc \in {"post", "done"}) =>
        finalize_calls = 1

\* ---------------------------------------------------------------------------
\* C6
\* ---------------------------------------------------------------------------
\* C6: when the ReAct loop is left by a `final` action, _force_finalize is
\* never called for the round, and the round goes on to submit a payload
\* whose answer is the template's answer after the merge done by `final`.
C6_FinalSkipsFinalize ==
    loop_exit = "final" =>
        /\ finalize_calls = 0
        /\ pc # "submit" =>
              /\ payload # None
              /\ (Val(final_update) # "absent" =>
                     Val(payload).answer = Val(final_update))

\* ---------------------------------------------------------------------------
\* C7
\* ---------------------------------------------------------------------------
\* C7: when llm.generate raises inside the ReAct loop (every provider failed,
\* or less than 5 s remained), the round is not aborted.
C7_ReactLLMFailureDoesNotAbort ==
    (gen.caller = "react" /\ gen.outcome = "raised") => pc # "failed"

\* ---------------------------------------------------------------------------
\* C8
\* ---------------------------------------------------------------------------
\* C8: no reasoning response of the ReAct loop that is not a well-formed tool
\* or final step makes the loop raise: the round never fails while handling
\* a step response.
C8_MalformedStepDoesNotRaise == failure # "react_step"

\* ---------------------------------------------------------------------------
\* C9
\* ---------------------------------------------------------------------------
\* C9: the context embedded in the prompt of a ReAct step holds, whole and in
\* append order, every observation (OBSERVATION or ERROR entry) appended to
\* the context log by the earlier steps of the round.
IsObservation(i) == appended[i].kind \in {"OBS", "ERROR"}

Holds(text, i) == \E k \in 1 .. Len(text) : text[k] = <<i, 1, appended[i].len>>

InOrder(text) ==
    \A j, k \in 1 .. Len(text) : j < k => text[j][1] < text[k][1]

C9_PromptHoldsEveryObservation ==
    (pc = "llm" /\ gen.caller = "react") =>
        /\ \A i \in 1 .. Len(appended) : IsObservation(i) => Holds(prompt_ctx, i)
        /\ InOrder(prompt_ctx)

\* ---------------------------------------------------------------------------
\* C11
\* ---------------------------------------------------------------------------
\* the segment is one whole entry, from its first to its last character
WholeEntry(seg) == seg[2] = 1 /\ seg[3] = appended[seg[1]].len

\* C11: after every append the log begins at the start of an entry and holds
\* no partial entry: a trim drops whole oldest entries only.
C11_OnlyWholeEntries ==
    \A k \in 1 .. Len(context_log) : WholeEntry(context_log[k])

\* ---------------------------------------------------------------------------
\* C12
\* ---------------------------------------------------------------------------
\* the provider calls of the generate call that were made to provider p
TriesOn(p) == {i \in 1 .. Len(gen.tries) : gen.tries[i].provider = p}

\* the latest provider call of the generate call went to the primary and succeeded
PrimarySucceeded ==
    /\ gen.caller = "client"
    /\ gen.last = "ok"
    /\ gen.tries[Len(gen.tries)].provider = primary

\* C12: when the primary succeeds on try k+1 after failing on its first k
\* tries (the code goes on to try k+1 only after a retriable error, k <= 3),
\* generate returns the text of that try, the primary is marked available
\* with no last error, and no call was made to the other provider.
C12_PrimaryRetrySucceeds ==
    PrimarySucceeded =>
        /\ gen.outcome = "returned"
        /\ pc = "returned"
        /\ gen.attempt <= 3
        /\ Len(gen.tries) = gen.attempt + 1
        /\ gen.reply \in ClientResponses
        /\ result = Some(gen.reply)
        /\ status[primary] = [available |-> TRUE, last_error |-> "none"]
        /\ \A i \in 1 .. Len(gen.tries) : gen.tries[i].provider = primary

\* with fallback enabled the primary succeeded on its 4th try (k = 3)
C12_Witness ==
    /\ PrimarySucceeded
    /\ fallback_enabled
    /\ gen.attempt = 3
    /\ Len(gen.tries) = 4
    /\ result = Some("T2")

\* ---------------------------------------------------------------------------
\* C13
\* ---------------------------------------------------------------------------
\* this step is a provider call of a running generate call
TryStep == gen.outcome = "running" /\ gen'.calls = gen.calls + 1

\* this step is a provider call that failed with a non-retriable error
FatalTryStep == TryStep /\ gen'.last \in {"http401", "nokey", "malformed"}

\* the number of provider calls made to p does not change in this step
NoTryOn(p) ==
    Cardinality({i \in 1 .. Len(gen'.tries) : gen'.tries[i].provider = p})
        = Cardinality(TriesOn(p))

\* C13: a try that fails with a fatal error is the last try on its provider
\* in the generate call: the call moves to the next provider of the order
\* (with fallback enabled and the primary failing) whose first try is made
\* without a wait, or raises when no provider is left; a provider the call
\* has moved past gets no further try.
C13_FatalEndsProvider ==
    [][(gen.caller = "client" /\ gen.outcome = "running") =>
          /\ FatalTryStep =>
                IF gen.idx < Len(order)
                THEN /\ gen'.outcome = "running"
                     /\ gen'.idx = gen.idx + 1
                     /\ gen'.attempt = 0
                     /\ pc' = "llm"
                ELSE /\ gen'.outcome = "raised"
                     /\ pc' = "failed"
          /\ (TryStep /\ gen.attempt = 0) => gen'.tries[Len(gen'.tries)].slept = 0
          /\ \A i \in 1 .. gen.idx - 1 : NoTryOn(order[i])
      ]_vars

\* the primary failed with HTTP 401 on its first try and the other provider
\* has been tried, at once
C13_Witness ==
    /\ gen.caller = "client"
    /\ gen.idx = 2
    /\ status[primary].last_error = "http401"
    /\ Cardinality(TriesOn(primary)) = 1
    /\ Cardinality(TriesOn(order[2])) >= 1
    /\ gen.tries[2] = [provider |-> order[2], slept |-> 0]

\* ---------------------------------------------------------------------------
\* C14
\* ---------------------------------------------------------------------------
\* this step is a provider call that failed
FailedTryStep == TryStep /\ gen'.last # "ok"

\* after this step the generate call stands at a further attempt on the same provider
GoesOnWithProvider ==
    /\ gen'.outcome = "running"
    /\ gen'.idx = gen.idx
    /\ gen'.attempt = gen.attempt + 1

\* the errors the claim names as retried: HTTP 429, HTTP 5xx, timeout, transport
RetriedKinds == {"http429", "http5xx", "timeout", "transport"}

\* C14 as stated: a failed try is followed by a further attempt on the same
\* provider if and only if its error is an HTTP 429, an HTTP 5xx, a timeout
\* or a transport failure.
C14_RetriedIffRetriable ==
    [][(gen.caller = "client" /\ FailedTryStep) =>
          (GoesOnWithProvider <=> gen'.last \in RetriedKinds)
      ]_vars

\* C14 amended: a failed try is followed by a further attempt on the same
\* provider if and only if its error is of a retried kind and the try was not
\* the provider's 4th; every other failed try ends the tries on the provider
\* at once (the call moves to the next provider or raises); a try is made as
\* a retry only after an error of a retried kind, and, when a timer is
\* passed, only with at least 5 s remaining at the check before it.
C14_RetriedIffRetriableAndTriesLeft ==
    [][gen.caller = "client" =>
          /\ FailedTryStep =>
                /\ GoesOnWithProvider <=> (gen'.last \in RetriedKinds /\ gen.attempt < 3)
                /\ ~GoesOnWithProvider =>
                      \/ gen'.outcome = "raised"
                      \/ gen'.outcome = "running" /\ gen'.idx = gen.idx + 1 /\ gen'.attempt = 0
          /\ (TryStep /\ gen.attempt > 0) => gen.last \in RetriedKinds
          /\ (TryStep /\ gen.timed) =>
                timeout - (now - Val(start_time)) >= 5 * TicksPerSecond
      ]_vars

\* without fallback, the 4th try on the primary failed with HTTP 5xx and was
\* not retried: the call raised after 4 tries
C14_Witness ==
    /\ gen.caller = "client"
    /\ ~fallback_enabled
    /\ gen.outcome = "raised"
    /\ Len(gen.tries) = 4
    /\ gen.last = "http5xx"
    /\ status[primary] = [available |-> FALSE, last_error |-> "http5xx"]

\* ---------------------------------------------------------------------------
\* C15
\* ---------------------------------------------------------------------------
\* the i-th provider call of the generate call is the k-th made to its provider
OrdinalOnProvider(i) ==
    Cardinality({j \in 1 .. i : gen.tries[j].provider = gen.tries[i].provider})

\* 0 s, 0.5 s, 1 s and 2 s in ticks
DelayBeforeTry(k) ==
    CASE k = 1 -> 0
      [] k = 2 -> TicksPerSecond \div 2
      [] k = 3 -> TicksPerSecond
      [] k = 4 -> 2 * TicksPerSecond

\* C15: in one generate call each provider gets at most 4 tries, the k-th try
\* on a provider is preceded by a sleep of exactly 0, 0.5, 1, 2 s for
\* k = 1..4, and at most 8 provider calls are made in all.
C15_TriesAndBackoffs ==
    gen.caller = "client" =>
        /\ \A p \in Providers : Cardinality(TriesOn(p)) <= 4
        /\ Len(gen.tries) <= 8
        /\ gen.calls = Len(gen.tries)
        /\ \A i \in 1 .. Len(gen.tries) :
              /\ OrdinalOnProvider(i) \in 1 .. 4
              /\ gen.tries[i].slept = DelayBeforeTry(OrdinalOnProvider(i))

\* both providers got 4 tries: 8 provider calls in one generate call
C15_Witness ==
    /\ gen.caller = "client"
    /\ Len(gen.tries) = 8
    /\ \A p \in Providers : Cardinality(TriesOn(p)) = 4
    /\ gen.tries[4].slept = 2 * TicksPerSecond
    /\ gen.tries[5].slept = 0

\* ---------------------------------------------------------------------------
\* C16
\* ---------------------------------------------------------------------------
\* C16: in every step of a generate call, a try that succeeds leaves its
\* provider available with no last error; a failed try that ends the tries on
\* its provider (tries exhausted, or a fatal error) leaves it unavailable with
\* that error as last error, and the call goes on to the next provider of the
\* order (or raises after the last); and a provider's status changes only
\* when the generate call has made a call to that provider.
C16_StatusFollowsCalls ==
    [][gen.caller = "client" =>
          /\ (TryStep /\ gen'.last = "ok") =>
                status'[order[gen.idx]] = [available |-> TRUE, last_error |-> "none"]
          /\ (FailedTryStep /\ ~GoesOnWithProvider) =>
                /\ status'[order[gen.idx]] = [available |-> FALSE, last_error |-> gen'.last]
                /\ IF gen.idx < Len(order)
                   THEN gen'.outcome = "running" /\ gen'.idx = gen.idx + 1
                   ELSE gen'.outcome = "raised"
          /\ \A p \in Providers :
                status'[p] # status[p] =>
                    \E i \in 1 .. Len(gen'.tries) : gen'.tries[i].provider = p
      ]_vars

\* ---------------------------------------------------------------------------
\* C17
\* ---------------------------------------------------------------------------
\* the provider that is not the primary
OtherProvider == IF primary = "GEMINI" THEN "AIPIPE" ELSE "GEMINI"

\* C17: the provider calls of every generate call go to the primary first
\* and then, only if fallback is enabled, to the other provider, never back;
\* this holds whatever availability and last error the client has recorded.
C17_OrderFromConfigOnly ==
    gen.caller = "client" =>
        /\ Len(gen.tries) > 0 =>
              \/ gen.tries[1].provider = primary
              \/ TriesOn(primary) = {} /\ gen.idx = 2
        /\ \A i \in 1 .. Len(gen.tries) :
              \/ gen.tries[i].provider = primary
              \/ /\ fallback_enabled
                 /\ gen.tries[i].provider = OtherProvider
                 /\ \A j \in TriesOn(primary) : j < i
        /\ (gen.outcome = "running" /\ gen.idx = 1) => TriesOn(OtherProvider) = {}

\* the client has the primary recorded as unavailable and the other provider
\* as available, and the generate call made its first call to the primary
C17_Witness ==
    /\ gen.caller = "client"
    /\ fallback_enabled
    /\ status[primary] = [available |-> FALSE, last_error |-> "http401"]
    /\ status[OtherProvider].available
    /\ gen.outcome = "running"
    /\ gen.idx = 1
    /\ Len(gen.tries) = 1
    /\ gen.tries[1].provider = primary

\* ---------------------------------------------------------------------------
\* C18
\* ---------------------------------------------------------------------------
\* the absolute URL a submit_url stands for on a page with this base URL:
\* a relative one is resolved against the base URL, an absolute one is
\* itself, a missing one is <origin>/submit
ResolvedAgainst(base, u) ==
    CASE u = None -> [origin |-> base.origin, path |-> <<"submit">>]
      [] u # None /\ u[1].form = "absolute" -> [origin |-> u[1].origin, path |-> u[1].path]
      [] u # None /\ u[1].form = "rooted" -> [origin |-> base.origin, path |-> u[1].path]
      [] OTHER -> [origin |-> base.origin,
                   path |-> SubSeq(base.path, 1, Len(base.path) - 1) \o u[1].path]

\* the ReAct loop ended on a `final` action that gave an answer and arrived
\* before the deadline (the clock does not advance between that arrival and
\* the requests of the submission), and a request has been sent
FinalBeforeDeadlineAndPosted ==
    /\ loop_exit = "final"
    /\ final_update # None
    /\ final_update # Some("absent")
    /\ now - Val(start_time) < timeout
    /\ post.wire >= 1

\* C18: in a round whose ReAct loop ends, before the deadline, on a `final`
\* action with updated_submission.answer = v, the payload POSTed has
\* answer = v and every request goes to the plan's submit URL made absolute:
\* resolved against the page's base URL when relative, unchanged when
\* absolute, <origin>/submit when missing.
C18_FinalAnswerPostedToResolvedUrl ==
    FinalBeforeDeadlineAndPosted =>
        /\ payload # None
        /\ Val(payload).answer = Val(final_update)
        /\ finalize_calls = 0
        /\ post.to = Some(ResolvedAgainst(page.base_url, page.submit_url))

\* a round with a relative submit URL ran a tool, got an observation, then a
\* `final` with answer A1 before the deadline, and its POST was answered
C18_Witness ==
    /\ FinalBeforeDeadlineAndPosted
    /\ pc = "done"
    /\ page.submit_url # None
    /\ Val(page.submit_url).form = "relative"
    /\ \E i \in 1 .. Len(appended) : appended[i].kind = "OBS"
    /\ Val(final_update) = "A1"
    /\ Val(post.to) = [origin |-> "https://quiz.example", path |-> <<"quiz", "submit">>]

\* ---------------------------------------------------------------------------
\* C19
\* ---------------------------------------------------------------------------
\* generate has returned a planning response in which neither the strict
\* parse nor the parse of the span from the first "{" to the last "}" finds JSON
PlanUnparseable ==
    /\ gen.caller = "plan"
    /\ gen.outcome = "returned"
    /\ gen.reply.shape = "nojson"

\* C19: when the planning response holds no JSON, the round has failed with
\* the planning parse error, no ReAct step was started, no tool ran, nothing
\* was written to the context log, no payload was built and no request was
\* sent; and nothing more happens in the round: planning is not retried.
C19_UnparseablePlanFailsRound ==
    /\ [](PlanUnparseable =>
             /\ pc = "failed"
             /\ failure = "plan_parse"
             /\ steps = 0
             /\ appended = <<>>
             /\ payload = None
             /\ post.wire = 0
             /\ result = None)
    /\ [][~PlanUnparseable]_vars

\* the planning response arrived after a retried provider call and held no JSON
C19_Witness ==
    /\ PlanUnparseable
    /\ gen.calls >= 2
    /\ failure = "plan_parse"

\* ---------------------------------------------------------------------------
\* C20
\* ---------------------------------------------------------------------------
\* this step appends exactly one entry, an ERROR, after those of the list before
OneErrorAppended(before) ==
    /\ Len(appended') = Len(before) + 1
    /\ SubSeq(appended', 1, Len(before)) = before
    /\ appended'[Len(appended')].kind = "ERROR"

\* this step receives a tool step naming a tool that is not in the registry
AbsentToolStep ==
    /\ pc = "llm"
    /\ gen.caller = "react"
    /\ gen'.outcome = "returned"
    /\ gen'.reply.action = "tool"
    /\ gen'.reply.tool \notin {"run_code"}

\* C20: _execute_tool_step never raises out of the round; a step naming a
\* tool that is not in the registry appends, after its THOUGHT entry, exactly
\* one ERROR entry, a tool that was called appends exactly one entry (the
\* observation, or one ERROR when it rejects its arguments, raises or gives a
\* result that cannot be serialized), and in each case the ReAct loop is back
\* at the top of its next iteration.
C20_ToolStepNeverRaises ==
    /\ [](failure # "tool_step")
    /\ [][/\ AbsentToolStep =>
                /\ pc' = "react"
                /\ OneErrorAppended(Append(appended, [kind |-> "THOUGHT", len |-> ShortText]))
          /\ pc = "tool" =>
                /\ pc' = "react"
                /\ Len(appended') = Len(appended) + 1
                /\ appended'[Len(appended')].kind \in {"OBS", "ERROR"}
         ]_vars

\* ---------------------------------------------------------------------------
\* C21
\* ---------------------------------------------------------------------------
\* C21: every entry a tool step appends to the context log, observation or
\* error, carries at most about 1500 characters of tool output (1500 plus
\* the entry's label, under 1600 characters in all).
C21_ToolEntriesTruncated ==
    \A i \in 1 .. Len(appended) :
        appended[i].kind \in {"OBS", "ERROR"} => appended[i].len <= 1600

\* ---------------------------------------------------------------------------
\* C22
\* ---------------------------------------------------------------------------
\* C22: whenever a tool has been dispatched by the ReAct loop and is running,
\* at least 5 s remained on the round's timer at the dispatch (the clock does
\* not advance between the return of the reasoning call and the dispatch).
C22_NoToolCallBelowFiveSeconds ==
    pc = "tool" =>
        timeout - (now - Val(start_time)) >= 5 * TicksPerSecond

\* ---------------------------------------------------------------------------
\* C23
\* ---------------------------------------------------------------------------
\* C23: every payload built for the POST of a round holds the keys email,
\* url, answer and secret, however the round reached the submission.
C23_PayloadHasRequiredKeys ==
    payload # None =>
        \A key \in {"email", "url", "answer", "secret"} : Val(payload)[key] # "absent"

\* a payload was POSTed in a round whose plan gave no template and whose
\* ReAct loop ended without a `final` action: the model supplied no answer
C23_Witness ==
    /\ payload # None
    /\ post.wire >= 1
    /\ final_update = None
    /\ loop_exit \in {"parse", "unknown"}
    /\ Val(payload) = [email |-> "EMAIL", url |-> "URL", secret |-> "SECRET", answer |-> "null"]

\* ---------------------------------------------------------------------------
\* C24
\* ---------------------------------------------------------------------------
\* the round produced an answer: a `final` step gave one
AnswerProduced == final_update # None /\ final_update # Some("absent")

\* C24 as stated: the answer of every payload built for submission is not null.
C24_AnswerNeverNull ==
    payload # None => Val(payload).answer # "null"

\* C24 amended: every payload built for submission holds the key answer; its
\* value is the answer the round produced, and it is null exactly when the
\* round produced none.
C24_AnswerPresentNullWhenNoneProduced ==
    payload # None =>
        /\ Val(payload).answer # "absent"
        /\ AnswerProduced => Val(payload).answer = Val(final_update)
        /\ Val(payload).answer = "null" <=> ~AnswerProduced

\* a payload with a null answer was POSTed: the plan's template was empty and
\* the ReAct loop ended on an unknown action
C24_Witness ==
    /\ payload # None
    /\ post.wire >= 1
    /\ loop_exit = "unknown"
    /\ ~AnswerProduced
    /\ Val(payload).secret = "SECRET"
    /\ Val(payload).answer = "null"

\* ---------------------------------------------------------------------------
\* C25
\* ---------------------------------------------------------------------------
\* C25: on every submission path, the JSON body of every request put on the
\* wire serializes to at most 1 MB.
C25_NoOversizedPayloadSent ==
    post.body # None => JsonBytes(Val(post.body)) <= MAX_PAYLOAD_BYTES

\* ---------------------------------------------------------------------------
\* C26
\* ---------------------------------------------------------------------------
\* C26: in one round at most 2 POST requests are put on the wire, counting
\* every request send_request makes for _submit_answer.
C26_AtMostTwoPosts == post.wire <= SUBMIT_ATTEMPTS

\* ---------------------------------------------------------------------------
\* C27
\* ---------------------------------------------------------------------------
\* the latest request was answered with a rejection: a 4xx status other than
\* 429, or a 2xx body that may say `correct: false`
Rejected == post.last \in {"4xx", "2xx", "http400", "http404", "2xx_wrong"}

\* C27: on both submission paths, once a request was answered with a
\* rejection no further POST is made.
C27_RejectedNeverResent == [][Rejected => post'.wire = post.wire]_vars

\* ---------------------------------------------------------------------------
\* C28
\* ---------------------------------------------------------------------------
\* the jobs run by app.agent.solver.run_solver_job
AgentJobs == {j \in JobIds : job[j].runner = "agent"}

\* C28: every round of a job is started on a url, each round after the first
\* on the `url` of the response of the round before it; once a response came
\* without `url` no round is started any more; and a job that finished has
\* performed as many rounds as it got responses, the last of them (the first
\* without `url`) ending the chain.
C28_ChainFollowsNextUrl ==
    /\ [](\A j \in AgentJobs :
            /\ job[j].state = "round" =>
                  /\ job[j].round_url # None
                  /\ job[j].question_index > 1 => job[j].round_url = job[j].last_url
            /\ job[j].state = "finished" =>
                  /\ job[j].answered >= 1
                  /\ job[j].last_url = None
                  /\ job[j].question_index = job[j].answered)
    /\ [][\A j \in AgentJobs :
             (job[j].answered > 0 /\ job[j].last_url = None) =>
                 job'[j].question_index = job[j].question_index]_vars

\* a chain of three rounds ran to its end: the responses of rounds 1 and 2
\* named a next url, the response of round 3 none
C28_Witness ==
    \E j \in AgentJobs :
       /\ job[j].state = "finished"
       /\ job[j].question_index = 3
       /\ job[j].answered = 3
       /\ job[j].round_url # None
       /\ job[j].last_url = None

\* ---------------------------------------------------------------------------
\* C29
\* ---------------------------------------------------------------------------
\* C29: whatever the responses, no job by either runner starts more than a
\* fixed maximum number of rounds (the 20 of max_questions).
C29_ChainBounded == \A j \in JobIds : job[j].question_index <= MAX_QUESTIONS

\* ---------------------------------------------------------------------------
\* C30
\* ---------------------------------------------------------------------------
\* C30: a job ended by a round that raised has reported the failure without
\* letting the exception out of run_solver_job.
C30_FailureReportedNotPropagated ==
    \A j \in JobIds : job[j].state = "failed" => ~job[j].raised

\* ---------------------------------------------------------------------------
\* C31
\* ---------------------------------------------------------------------------
\* a call of generate has been entered and has not returned or raised
ReasoningOutstanding == gen.outcome = "running"

\* a tool has been awaited by _execute_tool_step and has not come back
ToolOutstanding == pc = "tool"

\* a reasoning step of the ReAct loop is entered
ReactCallStarts ==
    gen.outcome # "running" /\ gen'.outcome = "running" /\ gen'.caller = "react"

C32_RecordedStatusNotOverwritten ==
    \A j \in JobIds :
       (job[j].state = "round" /\ job[j].recorded # None) =>
           status[Val(job[j].recorded).provider] = Val(job[j].recorded).status

\* ---------------------------------------------------------------------------
\* C33
\* ---------------------------------------------------------------------------
\* a try of send_request ended
SendStep == pc = "post" /\ (post' # post \/ pc' # pc)

\* the call of send_request raised QuizSolverError into _submit_answer, which
\* calls it again or gives up
SendRaised ==
    \/ post'.attempt = post.attempt + 1 /\ post'.try = 1 /\ pc' = "post"
    \/ pc' = "failed" /\ failure' = "submit"

\* C33: a call of send_request makes at most 3 tries, one request each; it
\* goes on to a further try only after a 429, a 5xx, a timeout or a transport
\* error; any other response, a 4xx included, is returned as a value; and the
\* call raises when its third try fails or a try meets an unexpected error.
C33_SendRequestRetries ==
    /\ [](post.try \in 1 .. SEND_MAX_RETRIES)
    /\ [][SendStep =>
             LET out == post'.last IN
             /\ post'.wire <= post.wire + 1
             /\ (post'.attempt = post.attempt /\ post'.try # post.try) =>
                   /\ post'.try = post.try + 1
                   /\ post'.wire = post.wire + 1
                   /\ out \in {"http429", "http5xx", "timeout", "transport"}
             /\ out \in {"2xx", "4xx"} =>
                   /\ pc' = "done"
                   /\ failure' = failure
                   /\ result' # None
                   /\ Val(result').status = out
             /\ out \in {"http429", "http5xx", "timeout", "transport"} =>
                   IF post.try < SEND_MAX_RETRIES
                   THEN post'.attempt = post.attempt /\ pc' = "post"
                   ELSE SendRaised
             /\ out = "unexpected" => SendRaised]_vars

\* the third try of a call was answered with a 4xx other than 429, which was
\* returned after two tries that were retried
C33_Witness ==
    /\ pc = "done"
    /\ post.attempt = 0
    /\ post.try = SEND_MAX_RETRIES
    /\ post.wire = SEND_MAX_RETRIES
    /\ post.last = "4xx"
    /\ result # None
    /\ Val(result).status = "4xx"

\* ---------------------------------------------------------------------------
\* C34
\* ---------------------------------------------------------------------------
\* C34: a question that failed in a step after the page was loaded and its
\* submit URL extracted has had a partial answer POSTed to that submit URL.
C34_FailureAfterLoadSubmitsPartial ==
    (pc = "failed" /\ submit_url # None) =>
        /\ post.wire >= 1
        /\ post.to = submit_url
        /\ "note" \in DOMAIN Val(post.body)

\* C35: in agent_node the forced-SKIP instruction is injected at most once
\* per task: once injected, no later agent step of the same task injects it
\* again.
C35_ForcedSkipInjectedOnce == graph.injected <= 1

\* C36: once the 175 s timeout of runagent_with_timeout has fired and the
\* dummy submission has been sent, the agent run started for that URL makes
\* no further tool call and no further submission.
C36_AgentStoppedAfterDummy == ~graph.after_dummy

C38_IdentityFieldsOfJob ==
    post.wire > 0 =>
        /\ Val(post.body).email = "EMAIL"
        /\ Val(post.body).url = UrlText(page.base_url)

\* C39: the REACTING loop terminates: where every reasoning call and every
\* tool call returns and advances the clock by a positive amount, the loop
\* makes finitely many passes and is left for good, and once
\* should_force_submit() is seen true at the top of a pass no further
\* reasoning step or tool call of the loop is started.
InReacting == pc \in {"react", "tool"} \/ (pc = "llm" /\ gen.caller = "react")

DeadlineEndsLoop ==
    /\ (pc = "react" /\ should_force_submit(start_time, timeout, now)) =>
           (pc' = "submit" /\ steps' = steps /\ loop_exit' = "deadline")
    /\ loop_exit = "deadline" => (~InReacting /\ ~InReacting' /\ steps' = steps)

C39_ReactLoopTerminates ==
    /\ <>[](~InReacting)
    /\ [](steps < MaxBudget)
    /\ [][DeadlineEndsLoop]_vars

C39_Witness == loop_exit = "deadline" /\ steps >= 2 /\ ~InReacting

\* C40: BrowserManager launches at most one browser: for any interleaving
\* of concurrent load_page calls on the shared browser_manager, the launch
\* inside initialize() is executed at most once between two close() calls.
C40_AtMostOneLaunch == browser.launched <= 1

====
